---- MODULE Spec2Model ----
(***************************************************************************)
(* Model of the alert store (AlertStore, zustand), the queue scheduler     *)
(* (AlertQueueService) and the alert factory (AlertService) of             *)
(* @umituz/react-native-alert.                                             *)
(*                                                                         *)
(* Time is counted in units of 100 ms (the grace window of processQueue).  *)
(* All callbacks run on the single JavaScript thread: every action below   *)
(* is one whole handler, executed atomically.  Timers follow a simulated   *)
(* clock: the clock does not move past the deadline of a pending callback, *)
(* and callbacks that are due fire in any order.                           *)
(*                                                                         *)
(* Optional fields (duration, showAt, priority: `undefined` in the source) *)
(* are sequences: << >> is absent, <<v>> is the value v.                   *)
(***************************************************************************)
EXTENDS Integers, Sequences, FiniteSets, Bags, TLC

VARIABLES
    activeAlerts,   \* AlertStore.activeAlerts : Alert[]
    queue,          \* AlertStore.queue : AlertQueueItem[]
    config,         \* AlertStore.config : AlertConfig
    isProcessing,   \* AlertStore.isProcessing
    isPaused,       \* AlertStore.isPaused
    now,            \* Date.now(), in units of 100 ms
    timers,         \* bag of pending setTimeout callbacks
    storage,        \* AsyncStorage value under STORAGE_KEY (<< >> when absent)
    writes,         \* snapshots handed to AsyncStorage.setItem, not yet completed
    \* history variables (not program state)
    last,           \* the last operation and the queue item its dequeue returned
    nextSeq,        \* number of enqueueAlert calls so far
    deqCount,       \* number of dequeueAlert calls that returned an alert
    overflowed,     \* TRUE once enqueueAlert has dropped an item
    addLog,         \* alerts passed to addAlert, in call order (logged runs only)
    addedAt,        \* set of [id, at]: time of the latest addAlert per active id
    \* AlertQueueService and the runtime
    isRunning,          \* AlertQueueService.isRunning
    processingInterval, \* AlertQueueService.processingInterval (<< >> is null)
    intervals,          \* the live setInterval timers: [handle, period, at]
    reads,              \* AsyncStorage.getItem calls of loadPersistedAlerts in flight
    \* history variables of the scheduler, the factory and the restarts
    lastTick,       \* << >>, or <<t>>: the time of the latest interval callback
    createdIds,     \* the ids createAlert returned, in call order
    promotions,     \* the ids the interval callbacks made active, in order
    enqueuedIds,    \* the ids handed to enqueueAlert by callers that enqueue once
    removedIds,     \* ids taken out of the active set while persistAlerts is on
    passes          \* ticks in a row that put a delayed alert back while a
                    \* ready one was queued

progVars == <<activeAlerts, queue, config, isProcessing, isPaused, now, timers,
              storage, writes>>
histVars == <<last, nextSeq, deqCount, overflowed, addLog, addedAt>>
svcVars == <<isRunning, processingInterval, intervals, reads>>
obsVars == <<lastTick, createdIds, promotions, enqueuedIds, removedIds,
            passes>>
vars == <<activeAlerts, queue, config, isProcessing, isPaused, now, timers,
          storage, writes, last, nextSeq, deqCount, overflowed, addLog, addedAt,
          isRunning, processingInterval, intervals, reads,
          lastTick, createdIds, promotions, enqueuedIds, removedIds, passes>>

----------------------------------------------------------------------------
(* Bounds of the model *)

MaxTime == 2
MaxAdds == 5
MaxActive == 3
MaxTimers == 2
MaxEnq == 3
MaxStoreEnq == 1
MaxRequeue == 1

----------------------------------------------------------------------------
(* Program constants *)

DefaultMaxQueueSize == 50
DefaultMaxVisibleToasts == 3
DefaultMaxVisibleBanners == 1
GraceWindow == 1
DefaultInterval == 5
DurationShort == 20
DurationMedium == 30
DurationLong == 50

SUCCESS == "success"
ERROR == "error"
WARNING == "warning"
INFO == "info"

TOAST == "toast"
BANNER == "banner"
MODAL == "modal"
INLINE == "inline"

DEFAULT_ALERT_CONFIG ==
    [maxQueueSize |-> DefaultMaxQueueSize,
     persistAlerts |-> FALSE,
     queueMode |-> "fifo",
     maxVisibleToasts |-> DefaultMaxVisibleToasts,
     maxVisibleBanners |-> DefaultMaxVisibleBanners]

----------------------------------------------------------------------------
(* Values *)

Has(x) == x # << >>

Max2(a, b) == IF a >= b THEN a ELSE b
Min2(a, b) == IF a <= b THEN a ELSE b

\* An Alert, reduced to the fields the store and the scheduler read.
\* dismissible is absent unless the caller or createAlert sets it.
MkAlert(id, mode, duration, showAt, priority) ==
    [id |-> id, mode |-> mode, duration |-> duration, showAt |-> showAt,
     priority |-> priority, dismissible |-> << >>]

\* Array.prototype.slice(start): a negative start counts from the end, and
\* slice(-0) is slice(0), the whole array.
SliceFrom(s, start) ==
    LET len == Len(s)
        k == IF start < 0 THEN Max2(len + start, 0) ELSE Min2(start, len)
    IN  SubSeq(s, k + 1, len)

----------------------------------------------------------------------------
(* AlertStore: pure parts *)

\* mutant: slice(0, max) keeps the oldest instead of the newest
limitVisibleAlertsKeepOldest(alerts, cfg) ==
    LET toastAlerts == SelectSeq(alerts, LAMBDA a : a.mode = TOAST)
        bannerAlerts == SelectSeq(alerts, LAMBDA a : a.mode = BANNER)
        otherAlerts == SelectSeq(alerts, LAMBDA a : a.mode # TOAST /\ a.mode # BANNER)
        limitedToasts == SubSeq(toastAlerts, 1, Min2(cfg.maxVisibleToasts, Len(toastAlerts)))
        limitedBanners == SubSeq(bannerAlerts, 1, Min2(cfg.maxVisibleBanners, Len(bannerAlerts)))
    IN  limitedBanners \o limitedToasts \o otherAlerts

\* mutant: the caps are off by one
limitVisibleAlertsOffByOne(alerts, cfg) ==
    LET toastAlerts == SelectSeq(alerts, LAMBDA a : a.mode = TOAST)
        bannerAlerts == SelectSeq(alerts, LAMBDA a : a.mode = BANNER)
        otherAlerts == SelectSeq(alerts, LAMBDA a : a.mode # TOAST /\ a.mode # BANNER)
        limitedToasts == SliceFrom(toastAlerts, -(cfg.maxVisibleToasts + 1))
        limitedBanners == SliceFrom(bannerAlerts, -(cfg.maxVisibleBanners + 1))
    IN  limitedBanners \o limitedToasts \o otherAlerts

\* mutant: the toasts are put before the banners
limitVisibleAlertsToastsFirst(alerts, cfg) ==
    LET toastAlerts == SelectSeq(alerts, LAMBDA a : a.mode = TOAST)
        bannerAlerts == SelectSeq(alerts, LAMBDA a : a.mode = BANNER)
        otherAlerts == SelectSeq(alerts, LAMBDA a : a.mode # TOAST /\ a.mode # BANNER)
        limitedToasts == SliceFrom(toastAlerts, -cfg.maxVisibleToasts)
        limitedBanners == SliceFrom(bannerAlerts, -cfg.maxVisibleBanners)
    IN  limitedToasts \o limitedBanners \o otherAlerts

limitVisibleAlerts(alerts, cfg) ==
    LET toastAlerts == SelectSeq(alerts, LAMBDA a : a.mode = TOAST)
        bannerAlerts == SelectSeq(alerts, LAMBDA a : a.mode = BANNER)
        otherAlerts == SelectSeq(alerts, LAMBDA a : a.mode # TOAST /\ a.mode # BANNER)
        limitedToasts == SliceFrom(toastAlerts, -cfg.maxVisibleToasts)
        limitedBanners == SliceFrom(bannerAlerts, -cfg.maxVisibleBanners)
    IN  limitedBanners \o limitedToasts \o otherAlerts

\* mutant: only an absent duration is without a timeout
HasTimeoutOnZero(alert) == Has(alert.duration) /\ alert.duration[1] >= 0

\* `alert.duration && alert.duration > 0`
HasTimeout(alert) == Has(alert.duration) /\ alert.duration[1] > 0

DismissTimer(alert, t) ==
    [kind |-> "dismiss", id |-> alert.id, at |-> t + alert.duration[1]]

GraceTimer(t) == [kind |-> "grace", id |-> << >>, at |-> t + GraceWindow]

\* mutant: the timeout is armed one unit late
TimersAfterAddLate(ts, alert, t) ==
    IF HasTimeout(alert)
    THEN ts (+) SetToBag({[kind |-> "dismiss", id |-> alert.id,
                           at |-> t + alert.duration[1] + 1]})
    ELSE ts

\* the setTimeout of addAlert
TimersAfterAdd(ts, alert, t) ==
    IF HasTimeout(alert) THEN ts (+) SetToBag({DismissTimer(alert, t)}) ELSE ts

\* isPersistent of alertHelpers: `alert.duration === ALERT_DURATIONS.PERSISTENT
\* || alert.duration === 0`, where PERSISTENT is 0
isPersistent(alert) == alert.duration = <<0>>

\* The properties of an Alert that the model carries.
AlertKeys == {"id", "mode", "duration", "showAt", "priority", "dismissible"}

\* JSON.stringify of an alert: a property whose value is undefined is left out
StringifyAlert(a) ==
    [k \in {"id", "mode"} \cup {j \in AlertKeys \ {"id", "mode"} : Has(a[j])} |-> a[k]]

\* an alert of a parsed document: a property that is missing reads undefined
ParseAlert(doc) ==
    [k \in AlertKeys |-> IF k \in DOMAIN doc THEN doc[k] ELSE << >>]

\* seq, the history tag of a queue item, rides along
StringifyItem(it) ==
    [alert |-> StringifyAlert(it.alert), enqueueAt |-> it.enqueueAt, seq |-> it.seq]

ParseItem(doc) ==
    [alert |-> ParseAlert(doc.alert), enqueueAt |-> doc.enqueueAt, seq |-> doc.seq]

\* mutant: only the active alerts are written
JSONStringifyActiveOnly(active, q) ==
    [text |-> "json",
     doc |-> [activeAlerts |-> [i \in DOMAIN active |-> StringifyAlert(active[i])]]]

\* JSON.stringify({ activeAlerts, queue })
JSONStringify(active, q) ==
    [text |-> "json",
     doc |-> [activeAlerts |-> [i \in DOMAIN active |-> StringifyAlert(active[i])],
              queue |-> [i \in DOMAIN q |-> StringifyItem(q[i])]]]

\* a stored text that JSON.parse rejects
Garbage == [text |-> "garbage", doc |-> << >>]

\* `const { activeAlerts, queue } = JSON.parse(stored)` followed by
\* `activeAlerts || []` and `queue || []`; << >> when JSON.parse throws
JSONParse(stored) ==
    IF stored.text # "json" THEN << >>
    ELSE LET doc == stored.doc
             active == IF "activeAlerts" \in DOMAIN doc THEN doc.activeAlerts ELSE << >>
             q == IF "queue" \in DOMAIN doc THEN doc.queue ELSE << >>
         IN  <<[activeAlerts |-> [i \in DOMAIN active |-> ParseAlert(active[i])],
                queue |-> [i \in DOMAIN q |-> ParseItem(q[i])]]>>

\* what AsyncStorage.setItem is called with; mem, a history tag, is the
\* state in memory the text was made from
StorageEntry(active, q) ==
    [data |-> JSONStringify(active, q),
     mem |-> [activeAlerts |-> active, queue |-> q]]

\* mutant: the snapshot is written whatever config.persistAlerts is
WritesAfterAlways(ws, cfg, active, q) == Append(ws, StorageEntry(active, q))

\* `if (get().config.persistAlerts) get().persistAlerts()`: the snapshot is
\* serialised synchronously, the write completes later.
WritesAfter(ws, cfg, active, q) ==
    IF cfg.persistAlerts THEN Append(ws, StorageEntry(active, q)) ELSE ws

\* `a.alert.priority ?? 0`
PriorityOf(item) == IF Has(item.alert.priority) THEN item.alert.priority[1] ELSE 0

\* mutant: an item is placed before the items of equal priority
InsertByPriorityBeforeTies(sorted, item) ==
    LET notLarger == {i \in 1..Len(sorted) : PriorityOf(sorted[i]) <= PriorityOf(item)}
        pos == IF notLarger = {} THEN Len(sorted) + 1
               ELSE CHOOSE i \in notLarger : \A j \in notLarger : i <= j
    IN  SubSeq(sorted, 1, pos - 1) \o <<item>> \o SubSeq(sorted, pos, Len(sorted))

\* Array.prototype.sort with the comparator priorityB - priorityA: descending
\* by priority, stable (ECMAScript 2019).
InsertByPriority(sorted, item) ==
    LET smaller == {i \in 1..Len(sorted) : PriorityOf(sorted[i]) < PriorityOf(item)}
        pos == IF smaller = {} THEN Len(sorted) + 1
               ELSE CHOOSE i \in smaller : \A j \in smaller : i <= j
    IN  SubSeq(sorted, 1, pos - 1) \o <<item>> \o SubSeq(sorted, pos, Len(sorted))

RECURSIVE SortByPriority(_)
SortByPriority(q) ==
    IF q = << >> THEN << >>
    ELSE InsertByPriority(SortByPriority(SubSeq(q, 1, Len(q) - 1)), q[Len(q)])

\* mutant: the overflow test is off by one
QueueAfterEnqueueOffByOne(q, cfg, item) ==
    LET appended == Append(q, item)
        limited == IF Len(appended) > cfg.maxQueueSize + 1
                   THEN SliceFrom(appended, -(cfg.maxQueueSize + 1))
                   ELSE appended
    IN  IF cfg.queueMode = "priority" THEN SortByPriority(limited) ELSE limited

\* the queue built by enqueueAlert
QueueAfterEnqueue(q, cfg, item) ==
    LET appended == Append(q, item)
        limited == IF Len(appended) > cfg.maxQueueSize
                   THEN SliceFrom(appended, -cfg.maxQueueSize)
                   ELSE appended
    IN  IF cfg.queueMode = "priority" THEN SortByPriority(limited) ELSE limited

\* mutants: the branches of dequeueAlert are confused
DequeueIndexAlwaysLast(q, cfg) == Len(q)

DequeueIndexAlwaysFirst(q, cfg) == 1

\* the index dequeueAlert removes: pop() for lifo, shift() otherwise
DequeueIndex(q, cfg) == IF cfg.queueMode = "lifo" THEN Len(q) ELSE 1

\* mutant: the dequeued item is read but stays in the queue
RemoveAtKeeps(q, i) == q

RemoveAt(q, i) == SubSeq(q, 1, i - 1) \o SubSeq(q, i + 1, Len(q))

\* mutant: the comparison with the clock is inverted
IsDelayedInverted(alert, t) ==
    Has(alert.showAt) /\ alert.showAt[1] # 0 /\ alert.showAt[1] < t

\* `alert.showAt && alert.showAt > Date.now()`
IsDelayed(alert, t) == Has(alert.showAt) /\ alert.showAt[1] # 0 /\ alert.showAt[1] > t

QueueItem(alert, t, n) == [alert |-> alert, enqueueAt |-> t, seq |-> n]

Op(name, item) == [op |-> name, item |-> item]

----------------------------------------------------------------------------
(* Initial state: the store as constructed, with the configuration the     *)
(* application installed (updateConfig) before the first alert.            *)

InitWith(cfg) ==
    /\ activeAlerts = << >>
    /\ queue = << >>
    /\ config = cfg
    /\ isProcessing = FALSE
    /\ isPaused = FALSE
    /\ now = 0
    /\ timers = EmptyBag
    /\ storage = << >>
    /\ writes = << >>
    /\ last = Op("init", << >>)
    /\ nextSeq = 0
    /\ deqCount = 0
    /\ overflowed = FALSE
    /\ addLog = << >>
    /\ addedAt = {}
    /\ isRunning = FALSE
    /\ processingInterval = << >>
    /\ intervals = {}
    /\ reads = 0
    /\ lastTick = << >>
    /\ createdIds = << >>
    /\ promotions = << >>
    /\ passes = 0
    /\ enqueuedIds = {}
    /\ removedIds = {}

\* the store as constructed, with what earlier runs have left in the storage
InitStored(cfg, stored) ==
    /\ activeAlerts = << >>
    /\ queue = << >>
    /\ config = cfg
    /\ isProcessing = FALSE
    /\ isPaused = FALSE
    /\ now = 0
    /\ timers = EmptyBag
    /\ storage = stored
    /\ writes = << >>
    /\ last = Op("init", << >>)
    /\ nextSeq = 0
    /\ deqCount = 0
    /\ overflowed = FALSE
    /\ addLog = << >>
    /\ addedAt = {}
    /\ isRunning = FALSE
    /\ processingInterval = << >>
    /\ intervals = {}
    /\ reads = 0
    /\ lastTick = << >>
    /\ createdIds = << >>
    /\ promotions = << >>
    /\ passes = 0
    /\ enqueuedIds = {}
    /\ removedIds = {}

----------------------------------------------------------------------------
(* AlertStore: operations *)

\* history: the add times of the ids that are in the list alerts
AddTimesOf(events, alerts) ==
    {e \in events : \E i \in DOMAIN alerts : alerts[i].id = e.id}

\* history: addAlert was called with alert at time t
NoteAdd(events, alert, t) ==
    {e \in events : e.id # alert.id} \cup {[id |-> alert.id, at |-> t]}

\* history: the ids that left the active set in a step, recorded while
\* persistAlerts is on (what a later load could bring back)
NoteRemoved(ids, cfg, before, after) ==
    IF cfg.persistAlerts
    THEN ids \cup ({before[i].id : i \in DOMAIN before}
                     \ {after[i].id : i \in DOMAIN after})
    ELSE ids

\* addAlert; the call log is left to the caller
addAlertCore(alert) ==
    /\ activeAlerts' = limitVisibleAlerts(Append(activeAlerts, alert), config)
    /\ timers' = TimersAfterAdd(timers, alert, now)
    /\ writes' = WritesAfter(writes, config, activeAlerts', queue)
    /\ addedAt' = AddTimesOf(NoteAdd(addedAt, alert, now), activeAlerts')
    /\ last' = Op("addAlert", << >>)
    /\ UNCHANGED <<queue, config, isProcessing, isPaused, now, storage,
                   nextSeq, deqCount, overflowed>>
    /\ UNCHANGED <<svcVars, obsVars>>

addAlert(alert) == addAlertCore(alert) /\ UNCHANGED addLog

\* mutant: splice(findIndex(id), 1), which drops the last alert when the id is
\* not found (index -1)
ActiveAfterRemoveSplice(alerts, id) ==
    IF \E i \in DOMAIN alerts : alerts[i].id = id
    THEN SelectSeq(alerts, LAMBDA a : a.id # id)
    ELSE SubSeq(alerts, 1, Len(alerts) - 1)

ActiveAfterRemove(alerts, id) == SelectSeq(alerts, LAMBDA a : a.id # id)

removeAlert(id) ==
    /\ activeAlerts' = ActiveAfterRemove(activeAlerts, id)
    /\ writes' = WritesAfter(writes, config, activeAlerts', queue)
    /\ addedAt' = AddTimesOf(addedAt, activeAlerts')
    /\ last' = Op("removeAlert", << >>)
    /\ removedIds' = NoteRemoved(removedIds, config, activeAlerts, activeAlerts')
    /\ UNCHANGED <<queue, config, isProcessing, isPaused, now, timers, storage,
                   nextSeq, deqCount, overflowed, addLog>>
    /\ UNCHANGED <<svcVars, lastTick, createdIds, promotions, enqueuedIds,
                   passes>>

dismissAllAlerts ==
    /\ activeAlerts' = << >>
    /\ writes' = WritesAfter(writes, config, activeAlerts', queue)
    /\ addedAt' = {}
    /\ last' = Op("dismissAllAlerts", << >>)
    /\ removedIds' = NoteRemoved(removedIds, config, activeAlerts, activeAlerts')
    /\ UNCHANGED <<queue, config, isProcessing, isPaused, now, timers, storage,
                   nextSeq, deqCount, overflowed, addLog>>
    /\ UNCHANGED <<svcVars, lastTick, createdIds, promotions, enqueuedIds,
                   passes>>

\* enqueueAlert; the record of who enqueued what is left to the caller
enqueueAlertCore(alert) ==
    /\ nextSeq' = nextSeq + 1
    /\ queue' = QueueAfterEnqueue(queue, config, QueueItem(alert, now, nextSeq'))
    /\ overflowed' = (overflowed \/ Len(queue') <= Len(queue))
    /\ last' = Op("enqueueAlert", << >>)
    /\ UNCHANGED <<activeAlerts, config, isProcessing, isPaused, now, timers,
                   storage, writes, deqCount, addLog, addedAt>>
    /\ UNCHANGED <<svcVars, lastTick, createdIds, promotions, removedIds,
                   passes>>

enqueueAlert(alert) == enqueueAlertCore(alert) /\ UNCHANGED enqueuedIds

\* mutant: dequeueAlert does not look at isPaused
dequeueAlertIgnoringPause ==
    /\ last' = Op("dequeueAlert",
                  IF queue = << >> THEN << >>
                  ELSE <<queue[DequeueIndex(queue, config)]>>)
    /\ queue' = IF queue = << >> THEN queue
                ELSE RemoveAt(queue, DequeueIndex(queue, config))
    /\ deqCount' = IF queue = << >> THEN deqCount ELSE deqCount + 1
    /\ UNCHANGED <<activeAlerts, config, isProcessing, isPaused, now, timers,
                   storage, writes, nextSeq, overflowed, addLog, addedAt>>
    /\ UNCHANGED <<svcVars, obsVars>>

dequeueAlert ==
    /\ last' = Op("dequeueAlert",
                  IF queue = << >> \/ isPaused THEN << >>
                  ELSE <<queue[DequeueIndex(queue, config)]>>)
    /\ queue' = IF queue = << >> \/ isPaused THEN queue
                ELSE RemoveAt(queue, DequeueIndex(queue, config))
    /\ deqCount' = IF queue = << >> \/ isPaused THEN deqCount ELSE deqCount + 1
    /\ UNCHANGED <<activeAlerts, config, isProcessing, isPaused, now, timers,
                   storage, writes, nextSeq, overflowed, addLog, addedAt>>
    /\ UNCHANGED <<svcVars, obsVars>>

pauseQueue ==
    /\ isPaused' = TRUE
    /\ last' = Op("pauseQueue", << >>)
    /\ UNCHANGED <<activeAlerts, queue, config, isProcessing, now, timers,
                   storage, writes, nextSeq, deqCount, overflowed, addLog, addedAt>>
    /\ UNCHANGED <<svcVars, obsVars>>

resumeQueue ==
    /\ isPaused' = FALSE
    /\ last' = Op("resumeQueue", << >>)
    /\ UNCHANGED <<activeAlerts, queue, config, isProcessing, now, timers,
                   storage, writes, nextSeq, deqCount, overflowed, addLog, addedAt>>
    /\ UNCHANGED <<svcVars, obsVars>>

dismissAlert(id) == removeAlert(id)

clearQueue ==
    /\ queue' = << >>
    /\ last' = Op("clearQueue", << >>)
    /\ UNCHANGED <<activeAlerts, config, isProcessing, isPaused, now, timers,
                   storage, writes, nextSeq, deqCount, overflowed, addLog, addedAt>>
    /\ UNCHANGED <<svcVars, obsVars>>

\* AsyncStorage.setItem of persistAlerts completes: writes complete in the
\* order they were issued
setItemDone ==
    /\ writes # << >>
    /\ storage' = <<Head(writes)>>
    /\ writes' = Tail(writes)
    /\ last' = Op("setItemDone", << >>)
    /\ UNCHANGED <<activeAlerts, queue, config, isProcessing, isPaused, now,
                   timers, nextSeq, deqCount, overflowed, addLog, addedAt>>
    /\ UNCHANGED <<svcVars, obsVars>>

\* AsyncStorage.setItem of persistAlerts rejects: the catch block is empty
setItemFailed ==
    /\ writes # << >>
    /\ writes' = Tail(writes)
    /\ last' = Op("setItemFailed", << >>)
    /\ UNCHANGED <<activeAlerts, queue, config, isProcessing, isPaused, now,
                   timers, storage, nextSeq, deqCount, overflowed, addLog, addedAt>>
    /\ UNCHANGED <<svcVars, obsVars>>

\* loadPersistedAlerts up to its await: AsyncStorage.getItem is in flight
loadPersistedAlerts ==
    /\ reads' = reads + 1
    /\ last' = Op("loadPersistedAlerts", << >>)
    /\ UNCHANGED <<progVars, nextSeq, deqCount, overflowed, addLog, addedAt,
                   isRunning, processingInterval, intervals, obsVars>>

\* how a getItem settles: it rejects, resolves to null, to a text JSON.parse
\* rejects, or to a snapshot
LoadOutcome(stored, readOk) ==
    IF ~readOk THEN "readFailed"
    ELSE IF stored = << >> THEN "absent"
    ELSE IF JSONParse(stored[1].data) = << >> THEN "parseFailed"
    ELSE "loaded"

\* mutant: the arrays are set outside the `if (stored)` and the try block
LoadedStateClearsOnError(mem, stored, readOk) ==
    IF LoadOutcome(stored, readOk) = "loaded"
    THEN JSONParse(stored[1].data)[1]
    ELSE [activeAlerts |-> << >>, queue |-> << >>]

\* the active set and the queue after loadPersistedAlerts has settled
LoadedState(mem, stored, readOk) ==
    IF LoadOutcome(stored, readOk) = "loaded"
    THEN JSONParse(stored[1].data)[1]
    ELSE mem

\* loadPersistedAlerts from its await on: getItem settles, and a snapshot that
\* parses replaces the active set and the queue
loadSettled(readOk) ==
    /\ reads > 0
    /\ reads' = reads - 1
    /\ LET loaded == LoadedState([activeAlerts |-> activeAlerts, queue |-> queue],
                                 storage, readOk)
       IN  /\ activeAlerts' = loaded.activeAlerts
           /\ queue' = loaded.queue
    /\ addedAt' = AddTimesOf(addedAt, activeAlerts')
    /\ last' = Op("loadSettled", <<LoadOutcome(storage, readOk)>>)
    /\ UNCHANGED <<config, isProcessing, isPaused, now, timers, storage, writes,
                   nextSeq, deqCount, overflowed, addLog>>
    /\ UNCHANGED <<isRunning, processingInterval, intervals, obsVars>>

\* the stored text is damaged outside the program
corruptStorage ==
    /\ storage # << >>
    /\ storage[1].data # Garbage
    /\ storage' = <<[storage[1] EXCEPT !.data = Garbage]>>
    /\ last' = Op("corruptStorage", << >>)
    /\ UNCHANGED <<activeAlerts, queue, config, isProcessing, isPaused, now,
                   timers, writes, nextSeq, deqCount, overflowed, addLog, addedAt>>
    /\ UNCHANGED <<svcVars, obsVars>>

\* the process ends and starts again: the module is evaluated anew, the
\* application installs its configuration, timers and calls in flight are
\* gone, the stored text stays
restart ==
    /\ activeAlerts' = << >>
    /\ queue' = << >>
    /\ isProcessing' = FALSE
    /\ isPaused' = FALSE
    /\ timers' = EmptyBag
    /\ writes' = << >>
    /\ isRunning' = FALSE
    /\ processingInterval' = << >>
    /\ intervals' = {}
    /\ reads' = 0
    /\ addedAt' = {}
    /\ last' = Op("restart", << >>)
    /\ UNCHANGED <<config, now, storage, nextSeq, deqCount, overflowed, addLog,
                   obsVars>>

\* mutant: the callback removes the oldest active alert, whatever its id
autoDismissOldest(t) ==
    /\ BagIn(t, timers)
    /\ t.kind = "dismiss"
    /\ t.at <= now
    /\ timers' = timers (-) SetToBag({t})
    /\ activeAlerts' = SubSeq(activeAlerts, 2, Len(activeAlerts))
    /\ writes' = WritesAfter(writes, config, activeAlerts', queue)
    /\ addedAt' = AddTimesOf(addedAt, activeAlerts')
    /\ last' = Op("autoDismiss", << >>)
    /\ removedIds' = NoteRemoved(removedIds, config, activeAlerts, activeAlerts')
    /\ UNCHANGED <<queue, config, isProcessing, isPaused, now, storage,
                   nextSeq, deqCount, overflowed, addLog>>
    /\ UNCHANGED <<svcVars, lastTick, createdIds, promotions, enqueuedIds,
                   passes>>

\* the auto-dismiss callback of addAlert: get().removeAlert(alert.id)
autoDismiss(t) ==
    /\ BagIn(t, timers)
    /\ t.kind = "dismiss"
    /\ t.at <= now
    /\ timers' = timers (-) SetToBag({t})
    /\ activeAlerts' = ActiveAfterRemove(activeAlerts, t.id)
    /\ writes' = WritesAfter(writes, config, activeAlerts', queue)
    /\ addedAt' = AddTimesOf(addedAt, activeAlerts')
    /\ last' = Op("autoDismiss", << >>)
    /\ removedIds' = NoteRemoved(removedIds, config, activeAlerts, activeAlerts')
    /\ UNCHANGED <<queue, config, isProcessing, isPaused, now, storage,
                   nextSeq, deqCount, overflowed, addLog>>
    /\ UNCHANGED <<svcVars, lastTick, createdIds, promotions, enqueuedIds,
                   passes>>

\* The simulated clock, up to time max: it does not pass the deadline of a
\* pending setTimeout or setInterval callback.
advanceTimeUpTo(max) ==
    /\ now < max
    /\ \A t \in BagToSet(timers) : t.at > now
    /\ \A iv \in intervals : iv.at > now
    /\ now' = now + 1
    /\ last' = Op("advanceTime", << >>)
    /\ UNCHANGED <<activeAlerts, queue, config, isProcessing, isPaused, timers,
                   storage, writes, nextSeq, deqCount, overflowed, addLog, addedAt>>
    /\ UNCHANGED <<svcVars, obsVars>>

advanceTime == advanceTimeUpTo(MaxTime)

----------------------------------------------------------------------------
(* AlertQueueService *)

\* mutant: a tick does not look at isProcessing
processQueueWhileProcessing ==
    LET skip == isPaused \/ queue = << >>
        i == DequeueIndex(queue, config)
        item == queue[i]
        rest == RemoveAt(queue, i)
        delayed == IsDelayed(item.alert, now)
    IN  /\ last' = Op("processQueue", IF skip THEN << >> ELSE <<item>>)
        /\ deqCount' = IF skip THEN deqCount ELSE deqCount + 1
        /\ IF skip
           THEN UNCHANGED <<activeAlerts, queue, isProcessing, timers, writes,
                            nextSeq, overflowed, addedAt>>
           ELSE IF delayed
           THEN /\ nextSeq' = nextSeq + 1
                /\ queue' = QueueAfterEnqueue(rest, config,
                                              QueueItem(item.alert, now, nextSeq'))
                /\ overflowed' = (overflowed \/ Len(queue') <= Len(rest))
                /\ UNCHANGED <<activeAlerts, isProcessing, timers, writes, addedAt>>
           ELSE /\ queue' = rest
                /\ isProcessing' = TRUE
                /\ activeAlerts' =
                       limitVisibleAlerts(Append(activeAlerts, item.alert), config)
                /\ timers' = TimersAfterAdd(timers, item.alert, now)
                               (+) SetToBag({GraceTimer(now)})
                /\ writes' = WritesAfter(writes, config, activeAlerts', queue')
                /\ addedAt' = AddTimesOf(NoteAdd(addedAt, item.alert, now),
                                         activeAlerts')
                /\ UNCHANGED <<nextSeq, overflowed>>
        /\ UNCHANGED <<config, isPaused, now, storage, addLog>>
        /\ UNCHANGED <<isRunning, processingInterval, reads, createdIds,
                       enqueuedIds, removedIds>>

\* mutant: a tick does not put a delayed alert back
processQueueDropsDelayed ==
    LET skip == isPaused \/ isProcessing \/ queue = << >>
        i == DequeueIndex(queue, config)
        item == queue[i]
        rest == RemoveAt(queue, i)
        delayed == IsDelayed(item.alert, now)
    IN  /\ last' = Op("processQueue", IF skip THEN << >> ELSE <<item>>)
        /\ deqCount' = IF skip THEN deqCount ELSE deqCount + 1
        /\ IF skip
           THEN UNCHANGED <<activeAlerts, queue, isProcessing, timers, writes,
                            nextSeq, overflowed, addedAt>>
           ELSE IF delayed
           THEN /\ queue' = rest
                /\ UNCHANGED <<activeAlerts, isProcessing, timers, writes, addedAt,
                               nextSeq, overflowed>>
           ELSE /\ queue' = rest
                /\ isProcessing' = TRUE
                /\ activeAlerts' =
                       limitVisibleAlerts(Append(activeAlerts, item.alert), config)
                /\ timers' = TimersAfterAdd(timers, item.alert, now)
                               (+) SetToBag({GraceTimer(now)})
                /\ writes' = WritesAfter(writes, config, activeAlerts', queue')
                /\ addedAt' = AddTimesOf(NoteAdd(addedAt, item.alert, now),
                                         activeAlerts')
                /\ UNCHANGED <<nextSeq, overflowed>>
        /\ UNCHANGED <<config, isPaused, now, storage, addLog>>
        /\ UNCHANGED <<isRunning, processingInterval, reads, createdIds,
                       enqueuedIds, removedIds>>

\* mutant: a tick puts an alert back when the cap of its mode is reached
processQueueDefersAtCap ==
    LET skip == isPaused \/ isProcessing \/ queue = << >>
        i == DequeueIndex(queue, config)
        item == queue[i]
        rest == RemoveAt(queue, i)
        delayed == \/ IsDelayed(item.alert, now)
                   \/ /\ item.alert.mode = TOAST
                      /\ Len(SelectSeq(activeAlerts, LAMBDA x : x.mode = TOAST))
                             >= config.maxVisibleToasts
                   \/ /\ item.alert.mode = BANNER
                      /\ Len(SelectSeq(activeAlerts, LAMBDA x : x.mode = BANNER))
                             >= config.maxVisibleBanners
    IN  /\ last' = Op("processQueue", IF skip THEN << >> ELSE <<item>>)
        /\ deqCount' = IF skip THEN deqCount ELSE deqCount + 1
        /\ IF skip
           THEN UNCHANGED <<activeAlerts, queue, isProcessing, timers, writes,
                            nextSeq, overflowed, addedAt>>
           ELSE IF delayed
           THEN /\ nextSeq' = nextSeq + 1
                /\ queue' = QueueAfterEnqueue(rest, config,
                                              QueueItem(item.alert, now, nextSeq'))
                /\ overflowed' = (overflowed \/ Len(queue') <= Len(rest))
                /\ UNCHANGED <<activeAlerts, isProcessing, timers, writes, addedAt>>
           ELSE /\ queue' = rest
                /\ isProcessing' = TRUE
                /\ activeAlerts' =
                       limitVisibleAlerts(Append(activeAlerts, item.alert), config)
                /\ timers' = TimersAfterAdd(timers, item.alert, now)
                               (+) SetToBag({GraceTimer(now)})
                /\ writes' = WritesAfter(writes, config, activeAlerts', queue')
                /\ addedAt' = AddTimesOf(NoteAdd(addedAt, item.alert, now),
                                         activeAlerts')
                /\ UNCHANGED <<nextSeq, overflowed>>
        /\ UNCHANGED <<config, isPaused, now, storage, addLog>>
        /\ UNCHANGED <<isRunning, processingInterval, reads, createdIds,
                       enqueuedIds, removedIds>>

\* processQueue, one scheduler tick; the timer that called it and the record
\* of the promotions are left to the caller
processQueueCore ==
    LET skip == isPaused \/ isProcessing \/ queue = << >>
        i == DequeueIndex(queue, config)
        item == queue[i]
        rest == RemoveAt(queue, i)
        delayed == IsDelayed(item.alert, now)
    IN  /\ last' = Op("processQueue", IF skip THEN << >> ELSE <<item>>)
        /\ deqCount' = IF skip THEN deqCount ELSE deqCount + 1
        /\ IF skip
           THEN UNCHANGED <<activeAlerts, queue, isProcessing, timers, writes,
                            nextSeq, overflowed, addedAt>>
           ELSE IF delayed
           THEN /\ nextSeq' = nextSeq + 1
                /\ queue' = QueueAfterEnqueue(rest, config,
                                              QueueItem(item.alert, now, nextSeq'))
                /\ overflowed' = (overflowed \/ Len(queue') <= Len(rest))
                /\ UNCHANGED <<activeAlerts, isProcessing, timers, writes, addedAt>>
           ELSE /\ queue' = rest
                /\ isProcessing' = TRUE
                /\ activeAlerts' =
                       limitVisibleAlerts(Append(activeAlerts, item.alert), config)
                /\ timers' = TimersAfterAdd(timers, item.alert, now)
                               (+) SetToBag({GraceTimer(now)})
                /\ writes' = WritesAfter(writes, config, activeAlerts', queue')
                /\ addedAt' = AddTimesOf(NoteAdd(addedAt, item.alert, now),
                                         activeAlerts')
                /\ UNCHANGED <<nextSeq, overflowed>>
        /\ UNCHANGED <<config, isPaused, now, storage, addLog>>
        /\ UNCHANGED <<isRunning, processingInterval, reads, createdIds,
                       enqueuedIds, removedIds>>

\* a tick has made its alert active
Promoted == last'.op = "processQueue" /\ isProcessing' /\ ~isProcessing

\* processQueue called directly
processQueue ==
    processQueueCore /\ UNCHANGED <<intervals, lastTick, promotions, passes>>

\* mutant: the callback leaves the flag as it is
graceElapsedKeepsFlag(t) ==
    /\ BagIn(t, timers)
    /\ t.kind = "grace"
    /\ t.at <= now
    /\ timers' = timers (-) SetToBag({t})
    /\ isProcessing' = isProcessing
    /\ last' = Op("graceElapsed", << >>)
    /\ UNCHANGED <<activeAlerts, queue, config, isPaused, now, storage, writes,
                   nextSeq, deqCount, overflowed, addLog, addedAt>>
    /\ UNCHANGED <<svcVars, obsVars>>

\* the grace-window callback of processQueue: store.setProcessing(false)
graceElapsed(t) ==
    /\ BagIn(t, timers)
    /\ t.kind = "grace"
    /\ t.at <= now
    /\ timers' = timers (-) SetToBag({t})
    /\ isProcessing' = FALSE
    /\ last' = Op("graceElapsed", << >>)
    /\ UNCHANGED <<activeAlerts, queue, config, isPaused, now, storage, writes,
                   nextSeq, deqCount, overflowed, addLog, addedAt>>
    /\ UNCHANGED <<svcVars, obsVars>>

\* scheduleAlert: { ...alert, showAt } is enqueued
scheduleAlert(alert, showAt) ==
    enqueueAlert([alert EXCEPT !.showAt = <<showAt>>])

\* the handle setInterval returns: one that no live timer has
FreshHandle(ivs) ==
    CHOOSE h \in 1..(Cardinality(ivs) + 1) : \A iv \in ivs : iv.handle # h

IntervalTimer(h, intervalMs, t) ==
    [handle |-> h, period |-> intervalMs, at |-> t + intervalMs]

\* mutant: startProcessor does not look at isRunning
startProcessorUnguarded(intervalMs) ==
    /\ isRunning' = TRUE
    /\ processingInterval' = <<FreshHandle(intervals)>>
    /\ intervals' = intervals \cup
                        {IntervalTimer(FreshHandle(intervals), intervalMs, now)}
    /\ last' = Op("startProcessor", << >>)
    /\ UNCHANGED <<progVars, nextSeq, deqCount, overflowed, addLog, addedAt,
                   reads, obsVars>>

startProcessor(intervalMs) ==
    /\ IF isRunning
       THEN UNCHANGED <<isRunning, processingInterval, intervals>>
       ELSE /\ isRunning' = TRUE
            /\ processingInterval' = <<FreshHandle(intervals)>>
            /\ intervals' = intervals \cup
                                {IntervalTimer(FreshHandle(intervals), intervalMs, now)}
    /\ last' = Op("startProcessor", << >>)
    /\ UNCHANGED <<progVars, nextSeq, deqCount, overflowed, addLog, addedAt,
                   reads, obsVars>>

\* mutant: the interval is not cleared
stopProcessorKeepsTimer ==
    /\ intervals' = intervals
    /\ processingInterval' = << >>
    /\ isRunning' = FALSE
    /\ last' = Op("stopProcessor", << >>)
    /\ UNCHANGED <<progVars, nextSeq, deqCount, overflowed, addLog, addedAt,
                   reads, obsVars>>

stopProcessor ==
    /\ intervals' = IF Has(processingInterval)
                    THEN {iv \in intervals : iv.handle # processingInterval[1]}
                    ELSE intervals
    /\ processingInterval' = << >>
    /\ isRunning' = FALSE
    /\ last' = Op("stopProcessor", << >>)
    /\ UNCHANGED <<progVars, nextSeq, deqCount, overflowed, addLog, addedAt,
                   reads, obsVars>>

\* the setInterval callback of startProcessor: () => this.processQueue()
intervalTickCore(iv) ==
    /\ iv \in intervals
    /\ iv.at <= now
    /\ intervals' = (intervals \ {iv}) \cup {[iv EXCEPT !.at = iv.at + iv.period]}
    /\ processQueueCore
    /\ lastTick' = <<now>>
    /\ promotions' = IF Promoted
                     THEN Append(promotions, last'.item[1].alert.id)
                     ELSE promotions

intervalTick(iv) == intervalTickCore(iv) /\ UNCHANGED passes

\* the queued items a tick at time t would promote
ReadyItems(q, t) == {i \in DOMAIN q : ~IsDelayed(q[i].alert, t)}

\* history: a tick that puts a delayed alert back while a ready one is queued
\* is one more pass; a promotion, or a queue without a ready item, ends the
\* run of passes
PassesAfter ==
    IF Promoted \/ ReadyItems(queue, now) = {} THEN 0
    ELSE IF last'.item # << >> THEN passes + 1
    ELSE passes

\* the setInterval callback, with the run of passes kept
countedTick(iv) == intervalTickCore(iv) /\ passes' = PassesAfter

\* { ...state.config, ...newConfig }: the keys newConfig has win
MergeConfig(cfg, newConfig) ==
    [k \in DOMAIN cfg |-> IF k \in DOMAIN newConfig THEN newConfig[k] ELSE cfg[k]]

updateConfig(newConfig) ==
    /\ config' = MergeConfig(config, newConfig)
    /\ last' = Op("updateConfig", << >>)
    /\ UNCHANGED <<activeAlerts, queue, isProcessing, isPaused, now, timers,
                   storage, writes, nextSeq, deqCount, overflowed, addLog,
                   addedAt>>
    /\ UNCHANGED <<svcVars, obsVars>>

resetConfig ==
    /\ config' = DEFAULT_ALERT_CONFIG
    /\ last' = Op("resetConfig", << >>)
    /\ UNCHANGED <<activeAlerts, queue, isProcessing, isPaused, now, timers,
                   storage, writes, nextSeq, deqCount, overflowed, addLog,
                   addedAt>>
    /\ UNCHANGED <<svcVars, obsVars>>

----------------------------------------------------------------------------
(* AlertProvider *)

\* the effect of AlertProvider, run on mount and again when
\* config.persistAlerts has changed: loadPersistedAlerts() if persistAlerts is
\* on (up to its await), then AlertQueueService.startProcessor()
providerEffect ==
    /\ reads' = IF config.persistAlerts THEN reads + 1 ELSE reads
    /\ IF isRunning
       THEN UNCHANGED <<isRunning, processingInterval, intervals>>
       ELSE /\ isRunning' = TRUE
            /\ processingInterval' = <<FreshHandle(intervals)>>
            /\ intervals' = intervals \cup
                   {IntervalTimer(FreshHandle(intervals), DefaultInterval, now)}
    /\ last' = Op("providerEffect", << >>)
    /\ UNCHANGED <<progVars, nextSeq, deqCount, overflowed, addLog, addedAt,
                   obsVars>>

\* the cleanup of the effect, run on unmount and before the effect runs again
providerCleanup == stopProcessor

----------------------------------------------------------------------------
(* AlertService and the useAlert hook *)

\* createAlert: rnd is the Math.random() suffix of generateId
createAlert(input, rnd) ==
    [MkAlert(<<now, rnd>>,
             IF Has(input.mode) THEN input.mode[1] ELSE TOAST,
             IF Has(input.duration) THEN input.duration ELSE <<DurationMedium>>,
             input.showAt,
             IF Has(input.priority) THEN input.priority ELSE <<0>>)
        EXCEPT !.dismissible = IF Has(input.dismissible) THEN input.dismissible
                               ELSE <<TRUE>>]

\* a caller of AlertService.createAlert that keeps the alert it gets
createAlertCall(input, rnd) ==
    /\ createdIds' = Append(createdIds, createAlert(input, rnd).id)
    /\ last' = Op("createAlert", << >>)
    /\ UNCHANGED <<progVars, nextSeq, deqCount, overflowed, addLog, addedAt,
                   svcVars, lastTick, promotions, enqueuedIds, removedIds,
                   passes>>

\* useAlert().show
show(input, rnd) ==
    /\ addAlertCore(createAlert(input, rnd))
    /\ UNCHANGED addLog

\* the alert createAlert returns for a CreateAlertInput with the given type
WithType(alert, type) ==
    [k \in DOMAIN alert \cup {"type"} |->
        IF k = "type" THEN type ELSE alert[k]]

createSuccessAlert(options, rnd) == WithType(createAlert(options, rnd), SUCCESS)

createErrorAlert(options, rnd) ==
    WithType(createAlert([options EXCEPT !.duration =
                             IF Has(@) THEN @ ELSE <<DurationLong>>], rnd),
             ERROR)

createWarningAlert(options, rnd) == WithType(createAlert(options, rnd), WARNING)

createInfoAlert(options, rnd) == WithType(createAlert(options, rnd), INFO)

\* history: a call of a typed show, with the duration its options gave
NoteShow(log, alert, options) ==
    Append(log, [alert |-> alert, given |-> options.duration])

\* useAlert().showSuccess, showError, showWarning, showInfo
showSuccess(options, rnd) ==
    /\ addAlertCore(createSuccessAlert(options, rnd))
    /\ addLog' = NoteShow(addLog, createSuccessAlert(options, rnd), options)

showError(options, rnd) ==
    /\ addAlertCore(createErrorAlert(options, rnd))
    /\ addLog' = NoteShow(addLog, createErrorAlert(options, rnd), options)

showWarning(options, rnd) ==
    /\ addAlertCore(createWarningAlert(options, rnd))
    /\ addLog' = NoteShow(addLog, createWarningAlert(options, rnd), options)

showInfo(options, rnd) ==
    /\ addAlertCore(createInfoAlert(options, rnd))
    /\ addLog' = NoteShow(addLog, createInfoAlert(options, rnd), options)

----------------------------------------------------------------------------
(* Inputs *)

AlertA == MkAlert(<<0, "a">>, TOAST, <<1>>, << >>, <<1>>)
AlertB == MkAlert(<<0, "b">>, TOAST, <<0>>, << >>, <<5>>)
AlertC == MkAlert(<<0, "c">>, TOAST, <<2>>, << >>, <<3>>)
AlertD == MkAlert(<<0, "d">>, BANNER, <<1>>, << >>, <<5>>)
AlertE == MkAlert(<<0, "e">>, BANNER, << >>, << >>, << >>)
AlertM == MkAlert(<<0, "m">>, MODAL, <<2>>, << >>, <<0>>)
AlertI == MkAlert(<<0, "i">>, INLINE, << >>, << >>, << >>)

\* membership of an alert in a list of alerts
InActive(alert, alerts) == \E i \in DOMAIN alerts : alerts[i] = alert

ToastsOf(s) == SelectSeq(s, LAMBDA a : a.mode = TOAST)
BannersOf(s) == SelectSeq(s, LAMBDA a : a.mode = BANNER)
OthersOf(s) == SelectSeq(s, LAMBDA a : a.mode # TOAST /\ a.mode # BANNER)

----------------------------------------------------------------------------
(* SpecAdd: only addAlert is called, under the default configuration *)

AddInputs == {AlertA, AlertB, AlertC, AlertM}

addAlertLogged(alert) ==
    /\ Len(addLog) < MaxAdds
    /\ addAlertCore(alert)
    /\ addLog' = Append(addLog, alert)

InitAdd == InitWith(DEFAULT_ALERT_CONFIG)
NextAdd == \E a \in AddInputs : addAlertLogged(a)
SpecAdd == InitAdd /\ [][NextAdd]_vars

\* C1: after every addAlert of an add-only run, the active toasts number at
\* most maxVisibleToasts (3) and are exactly the min(n, 3) toasts added last,
\* in the order in which they were added.
VisibilityCapAddOnly ==
    LET added == ToastsOf(addLog)
        n == Len(added)
        k == Min2(n, DefaultMaxVisibleToasts)
    IN  /\ Len(ToastsOf(activeAlerts)) <= DefaultMaxVisibleToasts
        /\ ToastsOf(activeAlerts) = SubSeq(added, n - k + 1, n)

\* C1 witness: more toasts were added than the cap admits
VisibilityCapAddOnlyWitness ==
    /\ Len(ToastsOf(addLog)) > DefaultMaxVisibleToasts
    /\ Len(ToastsOf(activeAlerts)) = DefaultMaxVisibleToasts
    /\ last.op = "addAlert"

----------------------------------------------------------------------------
(* SpecStore: direct shows, dismissals, timeouts and scheduler promotions  *)
(* interleave under a fixed configuration.                                 *)

StoreConfigs ==
    {[DEFAULT_ALERT_CONFIG EXCEPT !.maxVisibleToasts = t] : t \in {1, 2}}

StoreInputs == {AlertA, AlertE, AlertI}
StoreQueued == {AlertC}

\* the ids removeAlert is called with: the active ones and one that is not
ActiveIds == {activeAlerts[i].id : i \in DOMAIN activeAlerts}
StaleId == <<0, "z">>

\* the bounds of the model on the callers: the length of the active set and
\* the number of pending auto-dismiss callbacks
WithinBounds ==
    /\ Len(activeAlerts') <= MaxActive
    /\ BagCardinality(timers')
         - Cardinality({t \in BagToSet(timers') : t.kind = "grace"}) <= MaxTimers

InitStore == \E cfg \in StoreConfigs : InitWith(cfg)

NextStore ==
    \/ \E a \in StoreInputs : addAlert(a) /\ WithinBounds
    \/ \E id \in ActiveIds \cup {StaleId} : removeAlert(id)
    \/ dismissAllAlerts
    \/ \E t \in BagToSet(timers) : autoDismiss(t)
    \/ \E t \in BagToSet(timers) : graceElapsed(t)
    \/ advanceTime
    \/ \E a \in StoreQueued : nextSeq < MaxStoreEnq /\ enqueueAlert(a)
    \/ processQueue /\ WithinBounds

SpecStore == InitStore /\ [][NextStore]_vars

\* C2 (state part): the active toasts and banners never exceed their caps
CapsHold ==
    /\ Len(ToastsOf(activeAlerts)) <= config.maxVisibleToasts
    /\ Len(BannersOf(activeAlerts)) <= config.maxVisibleBanners

\* C2 (step part): an addAlert, direct or by promotion, keeps every modal and
\* inline alert that was active
OthersKept ==
    last'.op \in {"addAlert", "processQueue"} =>
        SubSeq(OthersOf(activeAlerts'), 1, Len(OthersOf(activeAlerts)))
            = OthersOf(activeAlerts)

\* C2: under a fixed configuration with caps >= 1, in every state reachable by
\* interleaving direct addAlert, scheduler promotions, removeAlert,
\* dismissAllAlerts and auto-dismiss callbacks, the active toasts number at
\* most maxVisibleToasts and the active banners at most maxVisibleBanners, and
\* no addAlert evicts a modal or inline alert.
CapsUnderInterleaving == []CapsHold /\ [][OthersKept]_vars

\* C2 witness: a promotion filled the toasts to their cap while a banner and
\* an inline alert were active; a toast added at the same instant is gone
CapsUnderInterleavingWitness ==
    /\ last.op = "processQueue"
    /\ last.item # << >>
    /\ Len(ToastsOf(activeAlerts)) = config.maxVisibleToasts
    /\ Len(BannersOf(activeAlerts)) = config.maxVisibleBanners
    /\ OthersOf(activeAlerts) # << >>
    /\ BagIn(DismissTimer(AlertA, now), timers)
    /\ ~InActive(AlertA, activeAlerts)

\* C7: an alert with duration > 0 that addAlert put into the active set
\* (directly or by promotion) is in the active set only up to duration after
\* its latest addAlert.
AutoDismissed ==
    \A i \in DOMAIN activeAlerts :
        HasTimeout(activeAlerts[i]) =>
            \E e \in addedAt :
                /\ e.id = activeAlerts[i].id
                /\ now <= e.at + activeAlerts[i].duration[1]

\* C7 witness: the timeout of a promoted alert has just removed it, at its
\* deadline
AutoDismissedWitness ==
    /\ last.op = "autoDismiss"
    /\ now = AlertC.duration[1]
    /\ deqCount = 1
    /\ ~InActive(AlertC, activeAlerts)
    /\ \A t \in BagToSet(timers) : t.id # AlertC.id

\* C17: no id occurs twice across the active set and the pending queue, in any
\* state reached by addAlert, enqueueAlert, scheduler ticks and the other
\* store operations, adding the same alert again included.
IdsUnique ==
    LET ids == [i \in 1..Len(activeAlerts) |-> activeAlerts[i].id]
                  \o [i \in 1..Len(queue) |-> queue[i].alert.id]
    IN  \A i, j \in DOMAIN ids : ids[i] = ids[j] => i = j

\* the callbacks a step has run: the timers it took out of the pending ones
FiredTimers == {t \in BagToSet(timers) : timers' = timers (-) SetToBag({t})}

\* C31 (step): an auto-dismiss callback leaves the queue as it is, leaves the
\* active set as it is when no active alert has its id, and keeps, in their
\* order, all active alerts with another id
RacedTimeoutStep ==
    last'.op = "autoDismiss" =>
        \A t \in FiredTimers :
            /\ queue' = queue
            /\ t.id \notin ActiveIds => activeAlerts' = activeAlerts
            /\ SelectSeq(activeAlerts, LAMBDA a : a.id # t.id)
                   = SelectSeq(activeAlerts', LAMBDA a : a.id # t.id)

\* C31: an auto-dismiss callback that fires after its alert has left the
\* active set (by dismissal, dismissAllAlerts or the visibility cap) changes
\* neither the active set nor the queue, and an auto-dismiss callback removes
\* no alert but the one, by id, it was armed for.
RacedTimeoutHarmless == [][RacedTimeoutStep]_vars

\* C31 witness: with a cap of one toast, the callback of a toast that a
\* promotion had evicted has fired while the promoted toast was active (the
\* promoted toast is queued once and its own callback is still pending), with
\* a banner active
RacedTimeoutHarmlessWitness ==
    /\ last.op = "autoDismiss"
    /\ config.maxVisibleToasts = 1
    /\ InActive(AlertC, activeAlerts)
    /\ InActive(AlertE, activeAlerts)
    /\ \E t \in BagToSet(timers) : t.id = AlertC.id

----------------------------------------------------------------------------
(* SpecQueue: the pending queue and the scheduler under a fixed            *)
(* configuration: enqueueAlert, scheduleAlert, dequeueAlert, pauseQueue,   *)
(* resumeQueue and scheduler ticks interleave while the clock advances.    *)

QueueA == MkAlert(<<0, "qa">>, TOAST, <<0>>, << >>, <<-1>>)
QueueB == MkAlert(<<0, "qb">>, TOAST, <<0>>, << >>, <<5>>)
QueueD == MkAlert(<<0, "qd">>, TOAST, << >>, << >>, << >>)

QueueInputs == {QueueA, QueueB, QueueD}
ScheduleInputs == {QueueB}
ScheduleTimes == {1}

\* the clock of this specification stops here
MaxQueueTime == 1

QueueConfigs ==
    {[DEFAULT_ALERT_CONFIG EXCEPT !.queueMode = m, !.maxQueueSize = n] :
        m \in {"fifo", "lifo", "priority"}, n \in {2, DefaultMaxQueueSize}}

InitQueue == \E cfg \in QueueConfigs : InitWith(cfg)

NextQueue ==
    \/ \E a \in QueueInputs : nextSeq < MaxEnq /\ enqueueAlert(a)
    \/ \E a \in ScheduleInputs, t \in ScheduleTimes :
           nextSeq < MaxEnq /\ scheduleAlert(a, t)
    \/ dequeueAlert
    \/ pauseQueue
    \/ resumeQueue
    \/ processQueue /\ nextSeq' <= MaxEnq + MaxRequeue
    \/ \E t \in BagToSet(timers) : graceElapsed(t)
    \/ advanceTimeUpTo(MaxQueueTime)

SpecQueue == InitQueue /\ [][NextQueue]_vars

\* the enqueue ordinals of the queued items, head first
SeqsOf(q) == [i \in 1..Len(q) |-> q[i].seq]

\* the priority of a queue item as the claims read it: absent counts as 0
Prio(item) == IF item.alert.priority = << >> THEN 0 ELSE item.alert.priority[1]

\* a dequeueAlert call has just returned an item
Dequeued == last.op = "dequeueAlert" /\ last.item # << >>

\* C3: under a fixed maxQueueSize = N >= 1 the queue never holds more than N
\* items, whatever enqueueAlert, dequeueAlert and ticks (with their re-enqueues)
\* did; and in fifo mode a run of n enqueues alone leaves exactly the last
\* min(n, N) enqueued items in enqueue order ([B, C] after A, B, C with N = 2).
QueueBound ==
    /\ Len(queue) <= config.maxQueueSize
    /\ (config.queueMode = "fifo" /\ deqCount = 0) =>
           LET k == Min2(nextSeq, config.maxQueueSize)
           IN  SeqsOf(queue) = [i \in 1..k |-> nextSeq - k + i]

\* C3 witness: A, B, C were enqueued with N = 2 in fifo mode
QueueBoundWitness ==
    /\ config.queueMode = "fifo"
    /\ config.maxQueueSize = 2
    /\ deqCount = 0
    /\ nextSeq = 3
    /\ SeqsOf(queue) = <<2, 3>>

\* C4: in fifo mode without overflow the k-th dequeueAlert that returns an
\* alert returns the k-th enqueued one, which is older than everything still
\* queued.
FifoOrder ==
    (config.queueMode = "fifo" /\ ~overflowed /\ Dequeued) =>
        /\ last.item[1].seq = deqCount
        /\ \A i \in DOMAIN queue : queue[i].seq > last.item[1].seq

\* C4 witness: the third dequeue returned the third enqueued alert
FifoOrderWitness ==
    /\ config.queueMode = "fifo"
    /\ ~overflowed
    /\ Dequeued
    /\ deqCount = 3
    /\ last.item[1].seq = 3

\* C5: in lifo mode without overflow every dequeueAlert returns the alert
\* enqueued last among those queued.
LifoOrder ==
    (config.queueMode = "lifo" /\ ~overflowed /\ Dequeued) =>
        \A i \in DOMAIN queue : queue[i].seq < last.item[1].seq

\* C5 witness: C was returned while A and B were still queued
LifoOrderWitness ==
    /\ config.queueMode = "lifo"
    /\ ~overflowed
    /\ Dequeued
    /\ last.item[1].seq = 3
    /\ SeqsOf(queue) = <<1, 2>>

\* C6 (state part): the alert returned has the highest priority of the queue,
\* and among equal priorities it is the one enqueued first
PriorityHead ==
    (config.queueMode = "priority" /\ ~overflowed /\ Dequeued) =>
        \A i \in DOMAIN queue :
            \/ Prio(queue[i]) < Prio(last.item[1])
            \/ /\ Prio(queue[i]) = Prio(last.item[1])
               /\ queue[i].seq > last.item[1].seq

\* C6 (step part): two dequeueAlert calls in a row return non-increasing
\* priorities, equal priorities in enqueue order
PriorityStep ==
    (config.queueMode = "priority" /\ ~overflowed' /\ Dequeued /\ Dequeued') =>
        \/ Prio(last'.item[1]) < Prio(last.item[1])
        \/ /\ Prio(last'.item[1]) = Prio(last.item[1])
           /\ last'.item[1].seq > last.item[1].seq

\* C6: in priority mode without overflow, successive dequeueAlert calls return
\* alerts in non-increasing priority (absent = 0), each the highest of the
\* queue, and alerts of equal priority in the order they were enqueued.
PriorityOrder == []PriorityHead /\ [][PriorityStep]_vars

\* C6 witness: of two queued alerts of priority 5 the older was returned, a
\* lower priority waits too
PriorityOrderWitness ==
    /\ config.queueMode = "priority"
    /\ ~overflowed
    /\ Dequeued
    /\ Prio(last.item[1]) = 5
    /\ \E i \in DOMAIN queue :
           Prio(queue[i]) = 5 /\ queue[i].seq > last.item[1].seq
    /\ \E i \in DOMAIN queue : Prio(queue[i]) < 5

\* showAt lies after time t
ShowAtAfter(alert, t) == alert.showAt # << >> /\ alert.showAt[1] > t

\* C8 (step part): a tick that dequeues an alert whose showAt is later than now
\* puts it back into the queue and leaves the active set alone; a tick that
\* dequeues any other alert takes it out of the queue and makes it active
TickOutcome ==
    (last'.op = "processQueue" /\ last'.item # << >>) =>
        LET alert == last'.item[1].alert
        IN  IF ShowAtAfter(alert, now)
            THEN /\ activeAlerts' = activeAlerts
                 /\ Len(queue') = Len(queue)
                 /\ \E i \in DOMAIN queue' :
                        queue'[i].alert = alert /\ queue'[i].seq = nextSeq'
            ELSE /\ InActive(alert, activeAlerts')
                 /\ Len(activeAlerts') >= Len(activeAlerts)
                 /\ Len(queue') = Len(queue) - 1

\* C8 (state part): no active alert has a showAt later than now
NoneEarly ==
    \A i \in DOMAIN activeAlerts : ~ShowAtAfter(activeAlerts[i], now)

\* C8: the scheduler re-enqueues an alert it dequeues before its showAt and
\* promotes it once now >= showAt, so an alert that came through enqueueAlert or
\* scheduleAlert is never active before its showAt.
DelayedPromotion == []NoneEarly /\ [][TickOutcome]_vars

\* C8 witness: a scheduled alert, put back by an earlier tick, was promoted by
\* a tick at its showAt
DelayedPromotionWitness ==
    /\ last.op = "processQueue"
    /\ last.item # << >>
    /\ last.item[1].alert.showAt = <<1>>
    /\ last.item[1].seq = 2
    /\ nextSeq = 2
    /\ deqCount = 2
    /\ InActive(last.item[1].alert, activeAlerts)

\* the dequeued item stands before the rest of the queue in the order of mode
DrainsInOrder(item, rest, mode) ==
    \A i \in DOMAIN rest :
        CASE mode = "fifo" -> rest[i].seq > item.seq
          [] mode = "lifo" -> rest[i].seq < item.seq
          [] OTHER -> \/ Prio(rest[i]) < Prio(item)
                      \/ Prio(rest[i]) = Prio(item) /\ rest[i].seq > item.seq

\* C10: while isPaused holds, dequeueAlert returns null and leaves the queue as
\* it is and a tick promotes nothing; pauseQueue and resumeQueue do not touch
\* the queue, and a dequeueAlert outside a pause returns the queued items in
\* the order of the configured queueMode.
PauseSemantics ==
    [][ /\ (isPaused /\ last'.op = "dequeueAlert") =>
               (last'.item = << >> /\ queue' = queue)
        /\ (isPaused /\ last'.op = "processQueue") =>
               (last'.item = << >> /\ queue' = queue
                  /\ activeAlerts' = activeAlerts)
        /\ (last'.op \in {"pauseQueue", "resumeQueue"}) => queue' = queue
        /\ (~isPaused /\ last'.op = "dequeueAlert" /\ queue # << >>) =>
               /\ last'.item # << >>
               /\ DrainsInOrder(last'.item[1], queue', config.queueMode)
               /\ Len(queue') = Len(queue) - 1 ]_vars

\* C10 witness: dequeueAlert returned null on a paused, non-empty queue
PauseSemanticsWitness ==
    /\ isPaused
    /\ Len(queue) >= 2
    /\ last.op = "dequeueAlert"
    /\ last.item = << >>

\* the queued items of before that are not among those of after
DroppedFrom(before, after) ==
    {before[i] : i \in {k \in DOMAIN before :
                          \A j \in DOMAIN after : after[j].seq # before[k].seq}}

\* C24: when enqueueAlert would make the queue longer than maxQueueSize, the
\* new item is kept and the items dropped were enqueued no later than any item
\* kept, in fifo, lifo and priority mode alike.
OverflowEvictsOldest ==
    [][ (last'.op = "enqueueAlert" /\ Len(queue) + 1 > config.maxQueueSize) =>
            /\ \E j \in DOMAIN queue' : queue'[j].seq = nextSeq'
            /\ \A d \in DroppedFrom(queue, queue') :
                   \A j \in DOMAIN queue' : d.enqueueAt <= queue'[j].enqueueAt
      ]_vars

\* the enqueue ordinals of the items of a queue, as a set
SeqSet(q) == {q[i].seq : i \in DOMAIN q}

\* C27 (idle tick): a tick that finds the queue paused, the scheduler
\* processing or the queue empty changes nothing in the store and arms no
\* callback
IdleTick ==
    (last'.op = "processQueue" /\ (isPaused \/ isProcessing \/ queue = << >>)) =>
        /\ last'.item = << >>
        /\ UNCHANGED <<activeAlerts, queue, config, isProcessing, isPaused,
                       timers, storage, writes>>

\* C27 (working tick): any other tick takes exactly one item out of the queue
\* and either makes its alert active, setting isProcessing, or puts it back at
\* a fresh ordinal because its showAt is ahead; nothing else leaves or enters
\* the queue and no other alert becomes active
WorkingTick ==
    (last'.op = "processQueue" /\ ~(isPaused \/ isProcessing \/ queue = << >>)) =>
        /\ last'.item # << >>
        /\ last'.item[1].seq \in SeqSet(queue)
        /\ LET item == last'.item[1]
           IN  \/ /\ isProcessing'
                  /\ ~ShowAtAfter(item.alert, now)
                  /\ SeqSet(queue') = SeqSet(queue) \ {item.seq}
                  /\ Len(queue') = Len(queue) - 1
                  /\ InActive(item.alert, activeAlerts')
                  /\ \A i \in DOMAIN activeAlerts' :
                         \/ activeAlerts'[i] = item.alert
                         \/ InActive(activeAlerts'[i], activeAlerts)
               \/ /\ ~isProcessing'
                  /\ ShowAtAfter(item.alert, now)
                  /\ SeqSet(queue') = (SeqSet(queue) \ {item.seq}) \cup {nextSeq'}
                  /\ Len(queue') = Len(queue)
                  /\ \E i \in DOMAIN queue' :
                         queue'[i].seq = nextSeq' /\ queue'[i].alert = item.alert
                  /\ activeAlerts' = activeAlerts

\* C27: tick discipline; in particular no tick promotes while isProcessing
\* is true.
TickDiscipline == [][IdleTick /\ WorkingTick]_vars

\* C27 witness: a tick has just found the scheduler processing and left a
\* non-empty, unpaused queue alone
TickDisciplineWitness ==
    /\ last.op = "processQueue"
    /\ last.item = << >>
    /\ isProcessing
    /\ ~isPaused
    /\ queue # << >>

----------------------------------------------------------------------------
(* SpecShow: the useAlert hook shows alerts, some of them with a showAt    *)
(* ahead of the clock (README, "Delayed Alerts"), and dismisses them.      *)

MaxShowDelay == 2

\* the Partial<Alert> arguments of show: showAt, if given, is Date.now() + d
ShowInputs ==
    {[mode |-> m, duration |-> d, showAt |-> s, priority |-> << >>,
      dismissible |-> x] :
        m \in {<< >>, <<MODAL>>},
        d \in {<< >>, <<1>>},
        s \in {<< >>} \cup {<<now + k>> : k \in 1..MaxShowDelay},
        x \in {<< >>, <<FALSE>>}}

RandomSuffixes == {"x", "y"}

InitShow == InitWith(DEFAULT_ALERT_CONFIG)

NextShow ==
    \/ \E input \in ShowInputs, rnd \in RandomSuffixes :
           show(input, rnd) /\ WithinBounds
    \/ \E id \in ActiveIds : removeAlert(id)
    \/ \E t \in BagToSet(timers) : autoDismiss(t)
    \/ advanceTime

SpecShow == InitShow /\ [][NextShow]_vars

\* C9: an alert whose showAt lies in the future is not in the active set before
\* that time, whichever way it entered; show({ ..., showAt: now + d }) does not
\* make it active before showAt.
ShowAtRespected ==
    \A i \in DOMAIN activeAlerts :
        activeAlerts[i].showAt # << >> => activeAlerts[i].showAt[1] <= now

\* C19: an alert whose dismissible flag is false stays in the active set when
\* dismiss(id) / dismissAlert(id) is called for it and when its auto-dismiss
\* timeout fires; only dismissible alerts are removed by those two paths.
DismissibleOnly ==
    [][ last'.op \in {"removeAlert", "autoDismiss"} =>
            \A i \in DOMAIN activeAlerts :
                activeAlerts[i].dismissible = <<FALSE>> =>
                    InActive(activeAlerts[i], activeAlerts') ]_vars

----------------------------------------------------------------------------
(* SpecProc: callers start and stop the processor at will, enqueue each     *)
(* alert once (some with a showAt ahead of the clock) and dequeue directly, *)
(* while the interval callbacks tick.                                       *)

MaxProcTime == 6

ProcP == MkAlert(<<0, "pp">>, MODAL, << >>, << >>, << >>)
ProcQ == MkAlert(<<0, "pq">>, MODAL, << >>, <<3>>, << >>)
ProcR == MkAlert(<<0, "pr">>, MODAL, << >>, << >>, << >>)

ProcInputs == {ProcP, ProcQ, ProcR}
ProcIntervals == {2, DefaultInterval}
ProcConfigs == {[DEFAULT_ALERT_CONFIG EXCEPT !.queueMode = m] : m \in {"fifo", "lifo"}}

\* a caller that hands an alert to enqueueAlert once
enqueueOnce(alert) ==
    /\ alert.id \notin enqueuedIds
    /\ enqueueAlertCore(alert)
    /\ enqueuedIds' = enqueuedIds \cup {alert.id}

InitProc == \E cfg \in ProcConfigs : InitWith(cfg)

NextProc ==
    \/ \E ms \in ProcIntervals : startProcessor(ms)
    \/ stopProcessor
    \/ \E iv \in intervals : intervalTick(iv)
    \/ \E a \in ProcInputs : enqueueOnce(a)
    \/ dequeueAlert
    \/ \E t \in BagToSet(timers) : graceElapsed(t)
    \/ advanceTimeUpTo(MaxProcTime)

SpecProc == InitProc /\ [][NextProc]_vars

\* C11 (state part): at most one interval timer is live, it is the one
\* processingInterval holds, and isRunning tells whether there is one
OneTimer ==
    /\ Cardinality(intervals) <= 1
    /\ isRunning <=> intervals # {}
    /\ \A iv \in intervals : processingInterval = <<iv.handle>>

\* C11 (step part): startProcessor while running changes nothing
StartWhileRunning ==
    (last'.op = "startProcessor" /\ isRunning) =>
        UNCHANGED <<isRunning, processingInterval, intervals, progVars>>

\* C11 (step part): an interval callback runs no sooner than one period of its
\* timer after the previous interval callback, and makes at most one alert
\* active
TickSpacing ==
    \A iv \in intervals :
        (last'.op = "processQueue" /\ iv \notin intervals') =>
            /\ lastTick # << >> => now - lastTick[1] >= iv.period
            /\ Len(activeAlerts') <= Len(activeAlerts) + 1

\* C11: after any sequence of startProcessor and stopProcessor calls at most
\* one interval timer is live, isRunning is true exactly when one is, a
\* startProcessor call while running changes nothing, and so at most one
\* promotion happens per configured interval.
IdempotentStart == []OneTimer /\ [][StartWhileRunning /\ TickSpacing]_vars

\* C11 witness: startProcessor was called while the timer of an earlier call,
\* which has already promoted an alert, was live
IdempotentStartWitness ==
    /\ last.op = "startProcessor"
    /\ isRunning
    /\ promotions # << >>
    /\ \E iv \in intervals : iv.at < now + iv.period /\ lastTick = <<iv.at - iv.period>>

\* C12 (state part): no id was promoted twice, and only enqueued ids were
PromotedOnce ==
    /\ \A i, j \in DOMAIN promotions : promotions[i] = promotions[j] => i = j
    /\ \A i \in DOMAIN promotions : promotions[i] \in enqueuedIds

\* C12 (step part): a dequeueAlert that returns an alert, called directly or by
\* a tick, takes exactly that item out of the queue; a tick then either puts
\* the alert back as a new item or makes it active
DequeueRemoves ==
    (last'.op \in {"dequeueAlert", "processQueue"} /\ last'.item # << >>) =>
        /\ \A k \in DOMAIN queue' : queue'[k].seq # last'.item[1].seq
        /\ \E k \in DOMAIN queue : queue[k] = last'.item[1]
        /\ IF last'.op = "dequeueAlert" \/ Promoted
           THEN Len(queue') = Len(queue) - 1
           ELSE Len(queue') = Len(queue) /\ activeAlerts' = activeAlerts

\* C12: every dequeueAlert that returns an alert removes exactly one item from
\* the queue before the tick decides on it, so under any interleaving of
\* ticks, direct dequeues and enqueues an alert that was enqueued once is
\* promoted at most once.
AtMostOncePromotion == []PromotedOnce /\ [][DequeueRemoves]_vars

\* C12 witness: a tick promoted an alert that an earlier tick had put back,
\* after another alert had been promoted and one dequeued directly
AtMostOncePromotionWitness ==
    /\ last.op = "processQueue"
    /\ last.item # << >>
    /\ last.item[1].alert.id = ProcQ.id
    /\ last.item[1].seq > Cardinality(enqueuedIds)
    /\ Len(promotions) = 2
    /\ promotions[2] = ProcQ.id
    /\ Cardinality(enqueuedIds) = 3
    /\ Len(activeAlerts) = 2

\* C30 (state part): while the processor is stopped no interval timer is live
StoppedMeansNoTimer == ~isRunning => intervals = {}

\* C30 (step part): stopProcessor leaves no timer and no running flag; a tick
\* happens only while the processor runs; startProcessor on a stopped
\* processor arms exactly one timer, due one interval from now
StopStartSteps ==
    /\ last'.op = "stopProcessor" => (intervals' = {} /\ ~isRunning')
    /\ last'.op = "processQueue" => isRunning
    /\ (last'.op = "startProcessor" /\ ~isRunning) =>
           /\ Cardinality(intervals') = 1
           /\ \A iv \in intervals' : iv.at = now + iv.period

\* C30: after stopProcessor no scheduler tick dequeues or promotes anything
\* until startProcessor is called again, and that call starts exactly one new
\* timer.
StopCancels == []StoppedMeansNoTimer /\ [][StopStartSteps]_vars

\* C30 witness: the processor, stopped after it had ticked, has just been
\* started again more than one interval later, with alerts still queued
StopCancelsWitness ==
    /\ last.op = "startProcessor"
    /\ lastTick # << >>
    /\ \E p \in ProcIntervals : now > lastTick[1] + p
    /\ queue # << >>
    /\ ~isProcessing
    /\ \E iv \in intervals : iv.at = now + iv.period

----------------------------------------------------------------------------
(* SpecGrace: the scheduler promotes alerts while callers stop and restart  *)
(* it, pause and resume the queue and clear it, also inside the grace       *)
(* window of a promotion.                                                   *)

MaxGraceTime == 4

GraceInputs == {ProcP, ProcR}
GraceIntervals == {1, 2}

InitGrace == InitWith(DEFAULT_ALERT_CONFIG)

NextGrace ==
    \/ \E ms \in GraceIntervals : startProcessor(ms)
    \/ stopProcessor
    \/ \E iv \in intervals : intervalTick(iv)
    \/ \E a \in GraceInputs : enqueueOnce(a)
    \/ pauseQueue
    \/ resumeQueue
    \/ clearQueue
    \/ \E t \in BagToSet(timers) : graceElapsed(t)
    \/ advanceTimeUpTo(MaxGraceTime)

SpecGrace == InitGrace /\ [][NextGrace]_vars

\* the number of pending grace-window callbacks
PendingGrace == CopiesIn(GraceTimer(now), timers) + CopiesIn(GraceTimer(now - GraceWindow), timers)

\* C29 (state part): isProcessing is true exactly while one grace-window
\* callback is pending, and that callback is due within the grace window
FlagHasCallback ==
    /\ \A t \in BagToSet(timers) :
           t.kind = "grace" => (t.at >= now /\ t.at <= now + GraceWindow)
    /\ PendingGrace <= 1
    /\ isProcessing <=> PendingGrace = 1

\* C29 (step part): the callback clears the flag; stopProcessor, pauseQueue
\* and clearQueue leave the flag and the pending callback alone
FlagSteps ==
    /\ last'.op = "graceElapsed" => ~isProcessing'
    /\ last'.op \in {"stopProcessor", "pauseQueue", "clearQueue"} =>
           UNCHANGED <<isProcessing, timers>>

\* C29: after every scheduler promotion the grace-window callback sets
\* isProcessing to false again, also when stopProcessor, pauseQueue or
\* clearQueue is called during the grace window; isProcessing is true only
\* while exactly one such callback is pending.
FlagReleased == []FlagHasCallback /\ [][FlagSteps]_vars

\* C29 witness: the callback has just cleared the flag of a promotion made one
\* grace window ago, with the processor stopped, the queue paused and cleared
\* in between
FlagReleasedWitness ==
    /\ last.op = "graceElapsed"
    /\ ~isProcessing
    /\ ~isRunning
    /\ isPaused
    /\ queue = << >>
    /\ lastTick = <<now - GraceWindow>>
    /\ Len(promotions) = 1
    /\ Cardinality(enqueuedIds) = 2

----------------------------------------------------------------------------
(* SpecPersist: the store operations with persistAlerts on; every write to  *)
(* storage succeeds and completes, writes in flight interleave with the     *)
(* operations.                                                              *)

MaxWrites == 1

PersistConfig == [DEFAULT_ALERT_CONFIG EXCEPT !.persistAlerts = TRUE]

PersistInputs == {AlertB, AlertE}
PersistQueued == {AlertC}

\* the bound of the model on the writes in flight
WritesBounded == Len(writes') <= MaxWrites

InitPersist == InitWith(PersistConfig)

NextPersist ==
    \/ \E a \in PersistInputs : addAlert(a) /\ WithinBounds /\ WritesBounded
    \/ \E id \in ActiveIds \cup {StaleId} : dismissAlert(id) /\ WritesBounded
    \/ dismissAllAlerts /\ WritesBounded
    \/ \E a \in PersistQueued : nextSeq < MaxStoreEnq /\ enqueueAlert(a)
    \/ dequeueAlert
    \/ clearQueue
    \/ processQueue /\ WithinBounds /\ WritesBounded
    \/ \E t \in BagToSet(timers) : autoDismiss(t) /\ WritesBounded
    \/ \E t \in BagToSet(timers) : graceElapsed(t)
    \/ advanceTime
    \/ setItemDone

SpecPersist == InitPersist /\ [][NextPersist]_vars

\* what a fresh store holds after it has loaded the stored text
Restored(stored) ==
    LoadedState([activeAlerts |-> << >>, queue |-> << >>], stored, TRUE)

\* C14: with persistAlerts on and every write succeeding and completing, the
\* stored snapshot equals the active set and the queue in memory after any
\* sequence of store operations, so that a restart followed by a load brings
\* back the queue as well as the active set.
StoredIsCurrent ==
    writes = << >> =>
        Restored(storage) = [activeAlerts |-> activeAlerts, queue |-> queue]

----------------------------------------------------------------------------
(* SpecRestart: with persistAlerts on, writes and reads of the storage may  *)
(* fail, the stored text may be damaged, the process restarts and           *)
(* loadPersistedAlerts is called (AlertProvider calls it on mount), at      *)
(* moments when no write is in flight.                                      *)

MaxLoads == 1

RestartInputs == {AlertB}
RestartQueued == {AlertI}

InitRestart == InitWith(PersistConfig)

NextRestart ==
    \/ \E a \in RestartInputs : addAlert(a) /\ WithinBounds /\ WritesBounded
    \/ \E id \in ActiveIds : dismissAlert(id) /\ WritesBounded
    \/ \E a \in RestartQueued : nextSeq < MaxStoreEnq /\ enqueueAlert(a)
    \/ setItemDone
    \/ setItemFailed
    \/ corruptStorage
    \/ restart
    \/ reads < MaxLoads /\ writes = << >> /\ loadPersistedAlerts
    \/ \E readOk \in BOOLEAN : loadSettled(readOk)

SpecRestart == InitRestart /\ [][NextRestart]_vars

\* C13 (step): a load that finds a snapshot, on a store whose active set and
\* queue are empty, yields the active set and the queue that were in memory
\* when persistAlerts made that snapshot
RoundTripStep ==
    (/\ last'.op = "loadSettled"
     /\ last'.item = <<"loaded">>
     /\ activeAlerts = << >>
     /\ queue = << >>) =>
        /\ activeAlerts' = storage[1].mem.activeAlerts
        /\ queue' = storage[1].mem.queue

BestEffortStep ==
    (\/ last'.op = "setItemFailed"
     \/ /\ last'.op = "loadSettled"
        /\ last'.item[1] \in {"readFailed", "parseFailed"}) =>
        UNCHANGED <<activeAlerts, queue, config, isProcessing, isPaused>>

\* C15: when the storage read, the JSON parse or the storage write fails,
\* loadPersistedAlerts and persistAlerts complete and the active set, the
\* queue, the configuration and the flags are what they were before.
BestEffort == [][BestEffortStep]_vars

\* C15 witness: a load met a stored text that does not parse while alerts were
\* active and queued
BestEffortWitness ==
    /\ last.op = "loadSettled"
    /\ last.item = <<"parseFailed">>
    /\ activeAlerts # << >>
    /\ queue # << >>

\* C20: once an alert has left the active set by dismiss, by its timeout or by
\* dismissAllAlerts, no later scheduler tick, timer callback or
\* loadPersistedAlerts (a load after a restart included) makes an alert with
\* that id active again.
NoResurrection ==
    [][ last'.op \in {"processQueue", "autoDismiss", "graceElapsed", "loadSettled"} =>
            \A i \in DOMAIN activeAlerts' :
                activeAlerts'[i].id \in removedIds =>
                    activeAlerts'[i].id \in ActiveIds ]_vars

----------------------------------------------------------------------------
(* SpecStale: dismissals with ids that are and are not active, and direct   *)
(* dequeues from queues that are and are not empty, among the other store   *)
(* operations under the default configuration.                              *)

StaleInputs == {AlertB, AlertE}
StaleQueued == {AlertC}

InitStale == InitWith(DEFAULT_ALERT_CONFIG)

NextStale ==
    \/ \E a \in StaleInputs : addAlert(a) /\ WithinBounds
    \/ \E id \in ActiveIds \cup {StaleId} : dismissAlert(id)
    \/ dismissAllAlerts
    \/ \E a \in StaleQueued : nextSeq < MaxStoreEnq /\ enqueueAlert(a)
    \/ dequeueAlert
    \/ clearQueue
    \/ processQueue /\ WithinBounds
    \/ \E t \in BagToSet(timers) : autoDismiss(t)
    \/ \E t \in BagToSet(timers) : graceElapsed(t)
    \/ advanceTime

SpecStale == InitStale /\ [][NextStale]_vars

\* C18: removeAlert / dismissAlert with an id that is not active leaves the
\* active set and the queue as they are, and dequeueAlert on an empty queue
\* returns null and leaves the whole state as it is.
StaleNoOps ==
    [][ /\ \A id \in {StaleId, AlertB.id, AlertE.id, AlertC.id} \ ActiveIds :
               dismissAlert(id) => (activeAlerts' = activeAlerts /\ queue' = queue)
        /\ (last'.op = "dequeueAlert" /\ queue = << >>) =>
               (last'.item = << >> /\ UNCHANGED <<progVars, svcVars>>) ]_vars

\* C18 witness: removeAlert was called with an id that was never active (no
\* alert was promoted) while two alerts were active and one was queued
StaleNoOpsWitness ==
    /\ last.op = "removeAlert"
    /\ deqCount = 0
    /\ InActive(AlertB, activeAlerts)
    /\ InActive(AlertE, activeAlerts)
    /\ queue # << >>

----------------------------------------------------------------------------
(* SpecCreate: callers of AlertService.createAlert, several in the same     *)
(* millisecond, while the clock advances.                                   *)

MaxCreates == 3

CreateInputs ==
    {[mode |-> << >>, duration |-> d, showAt |-> << >>, priority |-> << >>,
      dismissible |-> << >>] : d \in {<< >>, <<0>>}}

InitCreate == InitWith(DEFAULT_ALERT_CONFIG)

NextCreate ==
    \/ \E input \in CreateInputs, rnd \in RandomSuffixes :
           Len(createdIds) < MaxCreates /\ createAlertCall(input, rnd)
    \/ advanceTime

SpecCreate == InitCreate /\ [][NextCreate]_vars

\* C16: the ids returned by any sequence of createAlert calls in one process,
\* calls at the same clock value included, are pairwise distinct.
CreatedIdsDistinct ==
    \A i, j \in DOMAIN createdIds : createdIds[i] = createdIds[j] => i = j

----------------------------------------------------------------------------
(* SpecTyped: the typed shows of the useAlert hook, with and without a      *)
(* duration of the caller's, and the timeouts they arm.                     *)

MaxTypedShows == 2

\* AlertOptions: only duration is given, or nothing
TypedOptions ==
    {[mode |-> << >>, duration |-> d, showAt |-> << >>, priority |-> << >>,
      dismissible |-> << >>] : d \in {<< >>, <<0>>, <<1>>}}

InitTyped == InitWith(DEFAULT_ALERT_CONFIG)

NextTyped ==
    \/ \E o \in TypedOptions, rnd \in RandomSuffixes :
           Len(addLog) < MaxTypedShows /\ showSuccess(o, rnd)
    \/ \E o \in TypedOptions, rnd \in RandomSuffixes :
           Len(addLog) < MaxTypedShows /\ showError(o, rnd)
    \/ \E o \in TypedOptions, rnd \in RandomSuffixes :
           Len(addLog) < MaxTypedShows /\ showWarning(o, rnd)
    \/ \E o \in TypedOptions, rnd \in RandomSuffixes :
           Len(addLog) < MaxTypedShows /\ showInfo(o, rnd)
    \/ \E t \in BagToSet(timers) : autoDismiss(t)
    \/ advanceTime

SpecTyped == InitTyped /\ [][NextTyped]_vars

\* the durations the documentation gives per type (README, "Alert Types")
DocumentedDuration(type) ==
    CASE type = SUCCESS -> 20
      [] type = ERROR -> 50
      [] type = WARNING -> 30
      [] type = INFO -> 30

\* C21: without a duration of the caller's, showSuccess arms a 2 s timeout,
\* showError 5 s, showWarning 3 s and showInfo 3 s; a duration passed
\* explicitly is the one the alert gets.
TypedDefaults ==
    \A i \in DOMAIN addLog :
        LET e == addLog[i]
        IN  /\ Has(e.given) => e.alert.duration = e.given
            /\ ~Has(e.given) =>
                   e.alert.duration = <<DocumentedDuration(e.alert.type)>>

----------------------------------------------------------------------------
(* SpecConfig: the application changes the configuration with updateConfig *)
(* and resetConfig while alerts are shown, enqueued and dequeued.          *)

MaxConfigEnq == 3

ConfigInputs == {AlertA, AlertB, AlertE}
ConfigQueued == {QueueA, QueueB}

\* the Partial<AlertConfig> arguments of updateConfig
ConfigUpdates ==
    {[maxVisibleToasts |-> 1], [maxVisibleBanners |-> 0],
     [maxQueueSize |-> 1], [queueMode |-> "priority"], [queueMode |-> "lifo"]}

InitConfig == InitWith(DEFAULT_ALERT_CONFIG)

NextConfig ==
    \/ \E c \in ConfigUpdates : updateConfig(c)
    \/ resetConfig
    \/ \E a \in ConfigInputs : addAlert(a) /\ WithinBounds
    \/ \E a \in ConfigQueued : nextSeq < MaxConfigEnq /\ enqueueAlert(a)
    \/ dequeueAlert

SpecConfig == InitConfig /\ [][NextConfig]_vars

\* a configuration change has just been made
ConfigChanged == last.op \in {"updateConfig", "resetConfig"}

\* C22: after updateConfig (or resetConfig) has changed maxVisibleToasts or
\* maxVisibleBanners, the active set holds no more toasts and no more banners
\* than the new caps, without a further addAlert.
CapsAcrossConfig ==
    ConfigChanged =>
        /\ Len(ToastsOf(activeAlerts)) <= config.maxVisibleToasts
        /\ Len(BannersOf(activeAlerts)) <= config.maxVisibleBanners

\* C23: after updateConfig (or resetConfig) has changed maxQueueSize, the
\* pending queue is no longer than the current maxQueueSize.
QueueBoundAcrossConfig ==
    ConfigChanged => Len(queue) <= config.maxQueueSize

\* C25: whenever queueMode is priority and the queue is non-empty and not
\* paused, dequeueAlert returns an alert whose priority is maximal among the
\* queued ones, also for items enqueued before updateConfig switched to
\* priority.
PriorityHeadAcrossConfig ==
    [][ (last'.op = "dequeueAlert" /\ config.queueMode = "priority"
           /\ queue # << >> /\ ~isPaused) =>
            /\ last'.item # << >>
            /\ \A i \in DOMAIN queue : Prio(queue[i]) <= Prio(last'.item[1])
      ]_vars

----------------------------------------------------------------------------
(* SpecCaps: add-only runs under configurations whose visibility caps go   *)
(* down to zero.                                                           *)

CapsConfigs ==
    {[DEFAULT_ALERT_CONFIG EXCEPT !.maxVisibleToasts = t,
                                  !.maxVisibleBanners = b] :
        t \in 0..2, b \in 0..1}

CapsInputs == {AlertA, AlertB, AlertD, AlertE}

InitCaps == \E cfg \in CapsConfigs : InitWith(cfg)
NextCaps == \E a \in CapsInputs : addAlertLogged(a)
SpecCaps == InitCaps /\ [][NextCaps]_vars

\* the last min(Len(s), cap) elements of s
MostRecent(s, cap) == SubSeq(s, Len(s) - Min2(Len(s), cap) + 1, Len(s))

\* C26: for every cap >= 0, zero included, the active toasts after any
\* addAlert are exactly the most recent min(count, maxVisibleToasts) toasts
\* added, and the active banners the most recent min(count,
\* maxVisibleBanners) banners; a cap of zero keeps none.
KeepsMostRecent ==
    /\ ToastsOf(activeAlerts) = MostRecent(ToastsOf(addLog), config.maxVisibleToasts)
    /\ BannersOf(activeAlerts) = MostRecent(BannersOf(addLog), config.maxVisibleBanners)

----------------------------------------------------------------------------
(* SpecBlock: the scheduler runs, never paused and never stopped, over a    *)
(* queue in which ready alerts and alerts with a showAt ahead wait.         *)

MaxBlockTime == 6
BlockInterval == 2

BlockR == MkAlert(<<0, "br">>, MODAL, << >>, << >>, << >>)
BlockS == MkAlert(<<0, "bs">>, MODAL, << >>, << >>, <<1>>)
BlockD == MkAlert(<<0, "bd">>, MODAL, << >>, <<5>>, <<5>>)

BlockInputs == {BlockR, BlockS, BlockD}
BlockConfigs ==
    {[DEFAULT_ALERT_CONFIG EXCEPT !.queueMode = m] :
        m \in {"fifo", "lifo", "priority"}}

InitBlock == \E cfg \in BlockConfigs : InitWith(cfg)

NextBlock ==
    \/ startProcessor(BlockInterval)
    \/ \E iv \in intervals : countedTick(iv)
    \/ \E a \in BlockInputs : enqueueOnce(a)
    \/ \E t \in BagToSet(timers) : graceElapsed(t)
    \/ advanceTimeUpTo(MaxBlockTime)

SpecBlock == InitBlock /\ [][NextBlock]_vars

----------------------------------------------------------------------------
(* SpecMount: with persistAlerts on, the provider is mounted and unmounted, *)
(* its load settles at any later moment, alerts are shown, enqueued and     *)
(* dismissed meanwhile, writes complete or fail, and the process restarts.  *)

MaxMountTime == 6
MaxMountAdds == 2

MountInputs == {AlertA}
MountQueued == {AlertI}

\* addAlert, for a bounded number of calls
showOnce(alert) ==
    /\ Len(addLog) < MaxMountAdds
    /\ addAlertCore(alert)
    /\ addLog' = Append(addLog, alert)

InitMount == InitWith(PersistConfig)

NextMount ==
    \/ ~isRunning /\ reads < MaxLoads /\ providerEffect
    \/ isRunning /\ providerCleanup
    \/ \E a \in MountInputs : showOnce(a) /\ WritesBounded
    \/ \E id \in ActiveIds : dismissAlert(id) /\ WritesBounded
    \/ \E a \in MountQueued : nextSeq < MaxStoreEnq /\ enqueueOnce(a)
    \/ \E iv \in intervals : intervalTick(iv) /\ WithinBounds /\ WritesBounded
    \/ \E t \in BagToSet(timers) : autoDismiss(t) /\ WritesBounded
    \/ \E t \in BagToSet(timers) : graceElapsed(t)
    \/ setItemDone
    \/ restart
    \/ \E readOk \in BOOLEAN : loadSettled(readOk)
    \/ advanceTimeUpTo(MaxMountTime)

SpecMount == InitMount /\ [][NextMount]_vars

\* C32: the alerts that are in the active set or in the queue when a
\* loadPersistedAlerts settles are still there, by id, once the load has been
\* applied.
LoadMerges ==
    [][ last'.op = "loadSettled" =>
            /\ \A i \in DOMAIN activeAlerts :
                   \E j \in DOMAIN activeAlerts' :
                       activeAlerts'[j].id = activeAlerts[i].id
            /\ \A i \in DOMAIN queue :
                   \E j \in DOMAIN queue' :
                       queue'[j].alert.id = queue[i].alert.id ]_vars

\* C33: an alert with duration > 0 that is active, made active by
\* loadPersistedAlerts included, has an auto-dismiss callback pending that is
\* due no later than its duration from now, so that its timeout removes it.
RestoredTimedOut ==
    \A i \in DOMAIN activeAlerts :
        HasTimeout(activeAlerts[i]) =>
            \E t \in BagToSet(timers) :
                /\ t.kind = "dismiss"
                /\ t.id = activeAlerts[i].id
                /\ t.at <= now + activeAlerts[i].duration[1]

----------------------------------------------------------------------------
(* SpecSticky: alerts with and without a timeout are shown and dismissed    *)
(* under caps of two toasts and one banner, while loads of a snapshot that  *)
(* an earlier run has stored settle.                                        *)

StickyConfig == [DEFAULT_ALERT_CONFIG EXCEPT !.maxVisibleToasts = 2]

StickyInputs == {AlertA, AlertB, AlertE}
\* what an earlier run, with persistAlerts on, has left in the storage
StickyStored == StorageEntry(<<AlertE>>, << >>)

InitSticky == InitStored(StickyConfig, <<StickyStored>>)

NextSticky ==
    \/ \E a \in StickyInputs : addAlert(a) /\ WithinBounds
    \/ \E id \in ActiveIds : dismissAlert(id)
    \/ dismissAllAlerts
    \/ \E t \in BagToSet(timers) : autoDismiss(t)
    \/ reads < MaxLoads /\ loadPersistedAlerts
    \/ loadSettled(TRUE)
    \/ advanceTime

SpecSticky == InitSticky /\ [][NextSticky]_vars

\* an alert with duration 0 or without a duration
NoDuration(alert) == alert.duration = << >> \/ alert.duration = <<0>>

\* the active alerts of the mode of alert, and the cap on them
SameMode(s, alert) == SelectSeq(s, LAMBDA a : a.mode = alert.mode)

CapOf(cfg, alert) ==
    IF alert.mode = TOAST THEN cfg.maxVisibleToasts ELSE cfg.maxVisibleBanners

\* C34 (state): no auto-dismiss callback is pending for an active alert with
\* duration 0 or without a duration; what isPersistent calls persistent is
\* among these
NoCallbackForPersistent ==
    \A i \in DOMAIN activeAlerts :
        /\ isPersistent(activeAlerts[i]) => NoDuration(activeAlerts[i])
        /\ NoDuration(activeAlerts[i]) =>
               \A t \in BagToSet(timers) :
                   t.kind = "dismiss" => t.id # activeAlerts[i].id

\* C34 (step): an alert with duration 0 or without a duration leaves the
\* active set only by removeAlert / dismissAlert, by dismissAllAlerts, by an
\* addAlert that fills its mode to the cap, or by a load
PersistentLeaves ==
    \A i \in DOMAIN activeAlerts :
        (/\ NoDuration(activeAlerts[i])
         /\ activeAlerts[i].id \notin {activeAlerts'[j].id : j \in DOMAIN activeAlerts'}) =>
            \/ last'.op \in {"removeAlert", "dismissAllAlerts", "loadSettled"}
            \/ /\ last'.op = "addAlert"
               /\ activeAlerts[i].mode \in {TOAST, BANNER}
               /\ Len(SameMode(activeAlerts', activeAlerts[i]))
                      = CapOf(config, activeAlerts[i])

\* C34: an alert with duration 0 or no duration gets no auto-dismiss
\* callback, and leaves the active set only through removeAlert /
\* dismissAlert, dismissAllAlerts, eviction by the cap in a later addAlert of
\* its mode, or the replacement of the state by a load.
PersistentNeverTimedOut ==
    []NoCallbackForPersistent /\ [][PersistentLeaves]_vars

\* C34 witness: a callback has just fired, the clock is past every duration,
\* and a toast with duration 0 and a banner without a duration, both shown
\* before the clock moved, are active with no callback pending
PersistentNeverTimedOutWitness ==
    /\ last.op = "autoDismiss"
    /\ now = MaxTime
    /\ InActive(AlertB, activeAlerts)
    /\ InActive(AlertE, activeAlerts)
    /\ {e \in addedAt : e.at > 0} = {}
    /\ timers = EmptyBag

----------------------------------------------------------------------------
(* SpecOrder: from the empty store, addAlert and removeAlert only, with     *)
(* alerts of every mode, under caps of two toasts and two banners.          *)

MaxOrderAdds == 4

OrderConfig ==
    [DEFAULT_ALERT_CONFIG EXCEPT !.maxVisibleToasts = 2, !.maxVisibleBanners = 2]

OrderInputs == {AlertA, AlertB, AlertD, AlertE, AlertM, AlertI}

\* addAlert, for a bounded number of calls
addOrdered(alert) ==
    /\ Len(addLog) < MaxOrderAdds
    /\ addAlertCore(alert)
    /\ addLog' = Append(addLog, alert)

InitOrder == InitWith(OrderConfig)

NextOrder ==
    \/ \E a \in OrderInputs : addOrdered(a)
    \/ \E id \in ActiveIds \cup {StaleId} : removeAlert(id)

SpecOrder == InitOrder /\ [][NextOrder]_vars

\* s is t without some of its leading elements
IsSuffix(s, t) == Len(s) <= Len(t) /\ s = SubSeq(t, Len(t) - Len(s) + 1, Len(t))

\* a group of the active set after addAlert(alert): with the alert put at its
\* end, less some of its oldest, if it is the group of the mode of the alert,
\* and as it was if not
GroupAfterAdd(before, after, alert, mine) ==
    IF mine
    THEN /\ after # << >>
         /\ after[Len(after)] = alert
         /\ IsSuffix(after, Append(before, alert))
    ELSE after = before

\* C35 (state): the active set is its banners, then its toasts, then its
\* alerts of the other modes
GroupedByMode ==
    activeAlerts = BannersOf(activeAlerts) \o ToastsOf(activeAlerts)
                       \o OthersOf(activeAlerts)

\* C35 (step): an addAlert puts the alert last in the group of its mode and
\* keeps the order of what stays; a removeAlert takes the alerts of one id
\* out and keeps the others in their order
OrderKept ==
    /\ last'.op = "addAlert" =>
           LET alert == addLog'[Len(addLog')]
           IN  /\ GroupAfterAdd(BannersOf(activeAlerts), BannersOf(activeAlerts'),
                                alert, alert.mode = BANNER)
               /\ GroupAfterAdd(ToastsOf(activeAlerts), ToastsOf(activeAlerts'),
                                alert, alert.mode = TOAST)
               /\ GroupAfterAdd(OthersOf(activeAlerts), OthersOf(activeAlerts'),
                                alert, alert.mode \notin {BANNER, TOAST})
    /\ last'.op = "removeAlert" =>
           \E id \in ActiveIds \cup {StaleId} :
               activeAlerts' = SelectSeq(activeAlerts, LAMBDA a : a.id # id)

\* C35: starting from the empty store, after any sequence of addAlert and
\* removeAlert the active set is ordered banners, then toasts, then the other
\* modes, each group in the order of insertion, and removeAlert does not
\* reorder what remains.
ActiveSetOrdering == []GroupedByMode /\ [][OrderKept]_vars

\* C35 witness: a toast was added first and a banner last, and after a
\* removeAlert the active set holds a banner, two different toasts in the
\* order in which they were added, and a modal alert
ActiveSetOrderingWitness ==
    /\ last.op = "removeAlert"
    /\ Len(addLog) = MaxOrderAdds
    /\ addLog[1].mode = TOAST
    /\ addLog[MaxOrderAdds].mode = BANNER
    /\ Len(BannersOf(activeAlerts)) = 1
    /\ OthersOf(activeAlerts) # << >>
    /\ \E i, j \in DOMAIN addLog :
           /\ i < j
           /\ addLog[i] # addLog[j]
           /\ ToastsOf(activeAlerts) = <<addLog[i], addLog[j]>>

----------------------------------------------------------------------------
(* SpecOptIn: the default configuration (persistAlerts off) from start to   *)
(* end; the provider is mounted and unmounted, alerts are shown, dismissed, *)
(* enqueued, dequeued and promoted by the ticks; the storage holds what an  *)
(* earlier run has left.                                                    *)

MaxOptTime == 6

OptInputs == {AlertA, AlertE}
OptQueued == {AlertI}

InitOptIn == InitStored(DEFAULT_ALERT_CONFIG, <<StickyStored>>)

NextOptIn ==
    \/ ~isRunning /\ providerEffect
    \/ isRunning /\ providerCleanup
    \/ \E a \in OptInputs : addAlert(a) /\ WithinBounds
    \/ \E id \in ActiveIds \cup {StaleId} : removeAlert(id)
    \/ dismissAllAlerts
    \/ \E a \in OptQueued : nextSeq < MaxStoreEnq /\ enqueueOnce(a)
    \/ dequeueAlert
    \/ \E iv \in intervals : intervalTick(iv) /\ WithinBounds
    \/ \E t \in BagToSet(timers) : autoDismiss(t)
    \/ \E t \in BagToSet(timers) : graceElapsed(t)
    \/ advanceTimeUpTo(MaxOptTime)

SpecOptIn == InitOptIn /\ [][NextOptIn]_vars

\* C36 (state): no write to the storage and no read of it is in flight, and
\* the storage holds what it held at the start
StorageUntouched ==
    /\ writes = << >>
    /\ reads = 0
    /\ storage = <<StickyStored>>

\* C36 (step): no operation issues a write or a read, or changes the storage
NoStorageTraffic == UNCHANGED <<writes, reads, storage>>

\* C36: while config.persistAlerts is false, as it is by default, no store
\* operation (addAlert, removeAlert, dismissAllAlerts, enqueue, dequeue, tick)
\* writes to the storage, the start-up of the provider does not read it, and
\* the stored contents stay what they were.
PersistenceOptIn == []StorageUntouched /\ [][NoStorageTraffic]_vars

\* C36 witness: the provider is mounted, its scheduler has promoted a queued
\* alert, and the active alerts have just been dismissed: nothing was written
\* or read
PersistenceOptInWitness ==
    /\ ~config.persistAlerts
    /\ isRunning
    /\ promotions # << >>
    /\ last.op = "dismissAllAlerts"
    /\ storage = <<StickyStored>>
    /\ writes = << >>
    /\ reads = 0

----------------------------------------------------------------------------
(* SpecLoss: a queue of at most two items, in each queue mode: alerts are   *)
(* enqueued and scheduled ahead of the clock, the queue overflows, is       *)
(* cleared and dequeued from directly, while the scheduler ticks.           *)

LossConfigs ==
    {[DEFAULT_ALERT_CONFIG EXCEPT !.queueMode = m, !.maxQueueSize = 2] :
        m \in {"fifo", "lifo", "priority"}}

LossInputs == {QueueA, QueueD}

InitLoss == \E cfg \in LossConfigs : InitWith(cfg)

NextLoss ==
    \/ \E a \in LossInputs : nextSeq < MaxEnq /\ enqueueAlert(a)
    \/ \E a \in ScheduleInputs, t \in ScheduleTimes :
           nextSeq < MaxEnq /\ scheduleAlert(a, t)
    \/ dequeueAlert
    \/ clearQueue
    \/ processQueue /\ nextSeq' <= MaxEnq + MaxRequeue
    \/ \E t \in BagToSet(timers) : graceElapsed(t)
    \/ advanceTimeUpTo(MaxQueueTime)

SpecLoss == InitLoss /\ [][NextLoss]_vars

\* the queued items of a step that are not queued after it
LeftQueue == {queue[i] : i \in {k \in DOMAIN queue : queue[k].seq \notin SeqSet(queue')}}

\* C37 (tick): the alert a tick has dequeued is active, or is queued again
DequeuedAccounted ==
    (last'.op = "processQueue" /\ last'.item # << >>) =>
        LET item == last'.item[1]
        IN  /\ item \in LeftQueue
            /\ \/ InActive(item.alert, activeAlerts')
               \/ \E i \in DOMAIN queue' :
                      /\ queue'[i].alert = item.alert
                      /\ queue'[i].seq \notin SeqSet(queue)

\* C37 (every step): an item leaves the queue only as the one item a tick or
\* a dequeueAlert call has taken, by the overflow of an enqueueAlert that
\* leaves the queue full, or by clearQueue
LeavesAccounted ==
    LeftQueue # {} =>
        \/ /\ last'.op \in {"processQueue", "dequeueAlert"}
           /\ LeftQueue = {last'.item[1]}
        \/ /\ last'.op = "enqueueAlert"
           /\ Len(queue') = config.maxQueueSize
        \/ last'.op = "clearQueue"

\* C37: right after every tick the alert the tick dequeued is in the active
\* set (promoted) or back in the queue (delayed), and an alert leaves the
\* queue only by promotion, overflow eviction, clearQueue or a direct
\* dequeueAlert call.
NoSilentLoss == [][DequeuedAccounted /\ LeavesAccounted]_vars

\* C37 witness: a tick has found the alert at the dequeue position delayed
\* and has put it back into a full queue, next to an alert that is ready
NoSilentLossWitness ==
    /\ last.op = "processQueue"
    /\ last.item # << >>
    /\ ~isProcessing
    /\ Len(queue) = config.maxQueueSize
    /\ \E i \in DOMAIN queue :
           queue[i].alert = last.item[1].alert /\ queue[i].seq = nextSeq
    /\ \E i \in DOMAIN queue : ~IsDelayed(queue[i].alert, now)

----------------------------------------------------------------------------
(* SpecEvict: toasts and banners are shown directly and promoted by ticks   *)
(* under caps of one toast and one banner, while their timeouts run.        *)

MaxEvictEnq == 2

EvictConfig == [DEFAULT_ALERT_CONFIG EXCEPT !.maxVisibleToasts = 1]

EvictInputs == {AlertA, AlertD}
EvictQueued == {AlertC, AlertE}

InitEvict == InitWith(EvictConfig)

NextEvict ==
    \/ \E a \in EvictInputs : addAlert(a) /\ WithinBounds
    \/ \E a \in EvictQueued : nextSeq < MaxEvictEnq /\ enqueueAlert(a)
    \/ processQueue /\ WithinBounds
    \/ \E t \in BagToSet(timers) : autoDismiss(t)
    \/ \E t \in BagToSet(timers) : graceElapsed(t)
    \/ advanceTime

SpecEvict == InitEvict /\ [][NextEvict]_vars

\* C38 (step): a tick that dequeues a ready toast (banner) while as many
\* toasts (banners) are active as the cap allows makes it active in that
\* step, as the newest of its mode, drops the oldest active alert of the mode
\* from the active set without queueing it, and leaves the other modes alone
PromotedAtCap ==
    (/\ last'.op = "processQueue"
     /\ last'.item # << >>
     /\ ~IsDelayed(last'.item[1].alert, now)
     /\ last'.item[1].alert.mode \in {TOAST, BANNER}
     /\ Len(SameMode(activeAlerts, last'.item[1].alert))
            = CapOf(config, last'.item[1].alert)) =>
        LET alert == last'.item[1].alert
            mine == SameMode(activeAlerts, alert)
        IN  /\ SameMode(activeAlerts', alert) = Append(Tail(mine), alert)
            /\ SelectSeq(activeAlerts', LAMBDA a : a.mode # alert.mode)
                   = SelectSeq(activeAlerts, LAMBDA a : a.mode # alert.mode)
            /\ SeqSet(queue') = SeqSet(queue) \ {last'.item[1].seq}
            /\ Len(queue') = Len(queue) - 1

\* C38: a promotion of a toast (banner) while maxVisibleToasts toasts
\* (maxVisibleBanners banners) are active is not deferred: the promoted alert
\* is active after the tick and the oldest active alert of that mode is
\* evicted, and not put back into the queue, even if its duration has not
\* elapsed.
PromotionNeverDeferred == [][PromotedAtCap]_vars

\* C38 witness: a tick has promoted a toast into the place of a toast whose
\* timeout is still ahead, while a banner was active
PromotionNeverDeferredWitness ==
    /\ last.op = "processQueue"
    /\ last.item # << >>
    /\ ToastsOf(activeAlerts) = <<AlertC>>
    /\ BannersOf(activeAlerts) # << >>
    /\ BagIn(DismissTimer(AlertA, now), timers)
    /\ \A i \in DOMAIN queue : queue[i].alert # AlertA
====
